---- MODULE Spec2Model ----
(***************************************************************************)
(* mic-volume-control: the drift-correction loop (src/audio.rs), its       *)
(* supervisor (src/main.rs, src/tray.rs) and the scheduled-task registrar  *)
(* (src/scheduler.rs).                                                     *)
(*                                                                         *)
(* Volume levels are the f32 scalars of the source in fixed point, in      *)
(* thousandths: 1.0 is 1000 and the 1% tolerance 0.01 is 10.               *)
(***************************************************************************)
EXTENDS Integers, Sequences, FiniteSets, TLC

\* ------------------------------------------------------------- constants

\* The upper end of the range (0.0..=1.0) of a volume, in thousandths.
MaxVolume == 1000

\* const TOLERANCE: f32 = 0.01, in thousandths.
TOLERANCE == 10

\* Config::validate: check_interval_ms >= 100.
MinIntervalMs == 100

TASK_NAME == "MicrophoneVolumeControl"

\* A task of another program in the same task folder.
OTHER_TASK == "OtherVendorTask"

\* --------------------------------------------------------------- bounds

\* Failures of device and COM calls the environment may inject in a run.
MaxFaults == 2

\* Changes of the device level by external actors in a run.
MaxDrifts == 1

\* Clicks on the tray menu in a run.
MaxClicks == 1

\* Registrar calls in a run of the registrar specification.
MaxCalls == 3

\* Log files created in a run of the rotation specification.
MaxLogFiles == 4

\* Clicks on the tray menu in a run of the tray specification.
MaxMenuEvents == 2

\* No level: the value of a read that failed, or of a write not issued.
NoLevel == 0 - 1

\* Targets a merged configuration may hold; 1500 (150%) is out of range.
Targets == {500, 1000, 1500}

\* Check intervals a merged configuration may hold; 99 is below the minimum.
Intervals == {99, 100}

\* Levels external actors may set the device to. For the target 500: at
\* distance 0, 5, exactly 10 (490), 11 (511) and far (990); for the target
\* 1000: exactly 10 below (990) and far below.
Levels == {490, 495, 500, 511, 990}

\* Registration parameters: target volumes and intervals in minutes.
RegTargets == {500, 950}
RegIntervals == {5, 10}

VARIABLES
    \* the supervisor (main.rs run)
    supPc,          \* position of the main thread in run()
    cfg,            \* the merged configuration
    consoleRunning, \* console mode's local flag, cleared by the Ctrl-C handler
    handlerSet,     \* the Ctrl-C handler is installed
    \* the AudioController
    created,        \* AudioController::new has run
    running,        \* the controller's flag (FALSE while there is no controller)
    nStores,        \* stores performed on the running flag
    \* the loop thread (monitor_and_control)
    loopPc,
    iter,           \* what the last check_and_adjust_volume pass did
    iterated,       \* the loop has executed a pass
    initWrite,      \* the initial set_volume: its outcome and the level written
    \* the device and its environment
    level,          \* level of the default capture device
    faults,         \* failures injected so far
    drifts,         \* external level changes so far
    \* the tray thread and its channels
    trayPc,
    menuQ,          \* MenuEvent channel: clicks not yet consumed
    chan,           \* mpsc channel of TrayMessage
    clicks,         \* clicks so far
    \* the registrar and the task store
    sched,          \* "none" or "connected": a TaskScheduler session
    tasks,          \* the task folder: a sequence of task records
    vbsFile,        \* run-silent.vbs, the wrapper script
    last,           \* the last registrar call and what it returned
    regHist,        \* history: the last successful register or unregister
    calls,          \* registrar and accessor calls so far
    \* the command line, the accessor's entry points and COM
    cmd,            \* what Cli::parse returned: the subcommand, or monitoring
    acc,            \* the last set_volume or get_current_volume call
    comHeld,        \* the threads that hold a ComGuard
    apiLog,         \* the device and scheduler API calls made, by entry point
    \* the inputs of Config::load
    cfgFile,        \* config.toml, the persisted configuration record
    cli,            \* the options of the command line
    \* the capture endpoints
    defaultDev,     \* the endpoint that is the default capture device
    idle,           \* the level of the endpoint that is not the default
    enumerator,     \* the default endpoint when the loop created its enumerator
    resolved,       \* the endpoint the last device operation acted on
    \* the log directory
    logs,           \* the files app.log (slot 0) and app.log.1 to app.log.4
    rot             \* the last call of rotate_log_if_needed

supVars == <<supPc, cfg, consoleRunning, handlerSet>>
flagVars == <<created, running, nStores>>
loopVars == <<loopPc, iter, iterated>>
devVars == <<level, faults, drifts>>
trayVars == <<trayPc, menuQ, chan, clicks>>
regVars == <<sched, tasks, vbsFile, last, regHist, calls>>
cmdVars == <<cmd, acc, comHeld, apiLog>>
cfgVars == <<cfgFile, cli>>
endpointVars == <<defaultDev, idle, enumerator, resolved>>
logVars == <<logs, rot>>

vars == <<supVars, flagVars, loopVars, initWrite, devVars, trayVars, regVars,
          cmdVars, cfgVars, endpointVars, logVars>>

\* ------------------------------------------------------ pure operators

Abs(x) == IF x < 0 THEN 0 - x ELSE x

\* A variant of InRange: the range written (0.0..), without its upper end.
InRange_lower_only(v) == v >= 0

\* (0.0..=1.0).contains(&v)
InRange(v) == v >= 0 /\ v <= MaxVolume

\* A variant of Config::validate without the check of the interval.
validate_volume_only(c) == InRange(c.target_volume)

\* Config::validate
validate(c) == InRange(c.target_volume) /\ c.check_interval_ms >= MinIntervalMs

\* Config::default
DefaultConfig ==
    [target_volume |-> 950, check_interval_ms |-> 300000,
     enable_tray |-> TRUE, enable_autostart |-> TRUE]

\* The fields of Config, all of them required by its derived Deserialize.
ConfigFields ==
    {"target_volume", "check_interval_ms", "enable_tray", "enable_autostart"}

\* A configuration file that holds the record c in full.
FileOf(c) ==
    [state |-> "present", present |-> ConfigFields, unknown |-> FALSE,
     values |-> c]

\* No configuration file, and one that cannot be read or is not TOML.
NoFile ==
    [state |-> "absent", present |-> {}, unknown |-> FALSE,
     values |-> DefaultConfig]
UnreadableFile ==
    [state |-> "unreadable", present |-> {}, unknown |-> FALSE,
     values |-> DefaultConfig]

\* A variant of load_from_file: Config with #[serde(default)], a missing
\* field taking its default.
load_from_file_serde_default(file) ==
    IF file.state # "present"
    THEN [ok |-> FALSE, config |-> DefaultConfig]
    ELSE [ok |-> TRUE,
          config |-> [target_volume |->
                          IF "target_volume" \in file.present
                          THEN file.values.target_volume
                          ELSE DefaultConfig.target_volume,
                      check_interval_ms |->
                          IF "check_interval_ms" \in file.present
                          THEN file.values.check_interval_ms
                          ELSE DefaultConfig.check_interval_ms,
                      enable_tray |->
                          IF "enable_tray" \in file.present
                          THEN file.values.enable_tray
                          ELSE DefaultConfig.enable_tray,
                      enable_autostart |->
                          IF "enable_autostart" \in file.present
                          THEN file.values.enable_autostart
                          ELSE DefaultConfig.enable_autostart]]

\* Config::load_from_file: an error when the file does not exist, cannot be
\* read or does not deserialize; toml::from_str fails on a missing field
\* and ignores an unknown one.
load_from_file(file) ==
    IF file.state # "present" \/ file.present # ConfigFields
    THEN [ok |-> FALSE, config |-> DefaultConfig]
    ELSE [ok |-> TRUE, config |-> file.values]

\* The record of the configuration files drawn as inputs.
StoredConfig ==
    [target_volume |-> 500, check_interval_ms |-> 100,
     enable_tray |-> FALSE, enable_autostart |-> FALSE]

\* The configuration files drawn as inputs: none, an unreadable one, a
\* complete one, one whose interval or target validate rejects, one that
\* lacks a field and one with a field Config does not have.
Files ==
    {NoFile, UnreadableFile, FileOf(StoredConfig),
     FileOf([StoredConfig EXCEPT !.check_interval_ms = 99]),
     FileOf([StoredConfig EXCEPT !.target_volume = 1500]),
     [FileOf(StoredConfig) EXCEPT !.present = ConfigFields \ {"check_interval_ms"}],
     [FileOf(StoredConfig) EXCEPT !.unknown = TRUE]}

\* No option on the command line.
NoOptions ==
    [volume |-> NoLevel, interval |-> NoLevel, no_tray |-> FALSE,
     no_autostart |-> FALSE]

\* Config::load, lines 85-106: the configuration of the file, or the
\* default one when load_from_file fails, overridden by the options given.
Merged(file, options) ==
    LET lf == load_from_file(file)
        base == IF lf.ok THEN lf.config ELSE DefaultConfig IN
    [target_volume |-> IF options.volume # NoLevel
                       THEN options.volume * 10 ELSE base.target_volume,
     check_interval_ms |-> IF options.interval # NoLevel
                           THEN options.interval ELSE base.check_interval_ms,
     enable_tray |-> IF options.no_tray THEN FALSE ELSE base.enable_tray,
     enable_autostart |-> IF options.no_autostart
                          THEN FALSE ELSE base.enable_autostart]

\* The command lines drawn as inputs; clap admits --volume 0..=100 and
\* --interval 100.. only.
Clis ==
    {NoOptions,
     [NoOptions EXCEPT !.volume = 100, !.no_tray = TRUE],
     [NoOptions EXCEPT !.interval = 200, !.no_autostart = TRUE],
     [volume |-> 50, interval |-> 100, no_tray |-> TRUE, no_autostart |-> TRUE]}

NoIter == [read |-> "none", current |-> NoLevel, writes |-> 0, value |-> NoLevel]

\* ------------------------------------------------- the task store (OS)

\* The task definition register_task builds (scheduler.rs 44-205): all of its
\* fields are fixed but the repetition interval; the action runs the wrapper.
TaskDefinition(name, interval_minutes) ==
    [name |-> name,
     interval |-> interval_minutes,
     logon_delay |-> "PT1M",
     action |-> "wscript.exe //B //Nologo run-silent.vbs"]

HasTask(store, name) == \E i \in DOMAIN store : store[i].name = name

CountNamed(store, name) == Cardinality({i \in DOMAIN store : store[i].name = name})

\* ITaskFolder::DeleteTask: removes the named task; an error when the call
\* fails or when no task of that name exists (ERROR_FILE_NOT_FOUND).
DeleteTask(store, name, ok) ==
    IF ok /\ HasTask(store, name)
    THEN [ok |-> TRUE, tasks |-> SelectSeq(store, LAMBDA t : t.name # name)]
    ELSE [ok |-> FALSE, tasks |-> store]

\* ITaskFolder::RegisterTaskDefinition with TASK_CREATE_OR_UPDATE: replaces
\* the task of that name in place, or adds it.
RegisterTaskDefinition(store, def, ok) ==
    IF ~ok THEN [ok |-> FALSE, tasks |-> store]
    ELSE IF HasTask(store, def.name)
    THEN [ok |-> TRUE,
          tasks |-> [i \in DOMAIN store |->
                        IF store[i].name = def.name THEN def ELSE store[i]]]
    ELSE [ok |-> TRUE, tasks |-> Append(store, def)]

\* ------------------------------------------------------- the registrar

\* (target_volume * 100.0) as u8: truncates, and saturates at 0 and 255.
volume_percent(target_volume) ==
    IF target_volume < 0 THEN 0
    ELSE IF target_volume \div 10 > 255 THEN 255
    ELSE target_volume \div 10

\* run-silent.vbs: absent, cut short by a failed write, or written with the
\* command line WshShell.Run """<exe>"" volume <percent>".
NoVbs == [state |-> "absent", exe |-> "", command |-> "", volume_percent |-> 0]
PartialVbs == [state |-> "partial", exe |-> "", command |-> "", volume_percent |-> 0]

\* A variant of create_vbs_wrapper: a wrapper that exists is left as it is.
create_vbs_wrapper_keep(vbs, exe_path, target_volume, failAt) ==
    IF failAt \in {"wrapper", "vbs_create"} THEN [ok |-> FALSE, vbsFile |-> vbs]
    ELSE IF failAt = "vbs_write" THEN [ok |-> FALSE, vbsFile |-> PartialVbs]
    ELSE IF vbs.state = "written" THEN [ok |-> TRUE, vbsFile |-> vbs]
    ELSE [ok |-> TRUE,
          vbsFile |-> [state |-> "written",
                       exe |-> exe_path,
                       command |-> "volume",
                       volume_percent |-> volume_percent(target_volume)]]

\* The places where create_vbs_wrapper can fail, and the file it leaves.
\* "wrapper": APPDATA, create_dir_all or to_str fails, before the file is
\* touched; "vbs_create": File::create fails; "vbs_write": write_all fails
\* after File::create truncated the file.
create_vbs_wrapper(vbs, exe_path, target_volume, failAt) ==
    IF failAt \in {"wrapper", "vbs_create"} THEN [ok |-> FALSE, vbsFile |-> vbs]
    ELSE IF failAt = "vbs_write" THEN [ok |-> FALSE, vbsFile |-> PartialVbs]
    ELSE [ok |-> TRUE,
          vbsFile |-> [state |-> "written",
                       exe |-> exe_path,
                       command |-> "volume",
                       volume_percent |-> volume_percent(target_volume)]]

\* A variant of RegisteredName: the task registered under the author string
\* instead of TASK_NAME.
RegisteredName_author(target_volume) == "MicVolumeControl"

\* The name register_task registers the task under.
RegisteredName(target_volume) == TASK_NAME

RegisterFailPoints ==
    {"none", "exe", "wrapper", "vbs_create", "vbs_write", "folder",
     "definition", "commit"}

\* A variant of register_task: the result of DeleteTask returned with ?
\* instead of being discarded.
register_task_checked(store, vbs, target_volume, interval_minutes, failAt, deleteOk) ==
    IF failAt = "exe"
    THEN [ok |-> FALSE, tasks |-> store, vbsFile |-> vbs, deleted |-> FALSE]
    ELSE LET w == create_vbs_wrapper(vbs, "exe", target_volume, failAt) IN
    IF ~w.ok \/ failAt = "folder"
    THEN [ok |-> FALSE, tasks |-> store, vbsFile |-> w.vbsFile, deleted |-> FALSE]
    ELSE LET d == DeleteTask(store, TASK_NAME, deleteOk) IN
    IF ~d.ok \/ failAt = "definition"
    THEN [ok |-> FALSE, tasks |-> d.tasks, vbsFile |-> w.vbsFile, deleted |-> d.ok]
    ELSE LET r == RegisterTaskDefinition(
                      d.tasks,
                      TaskDefinition(RegisteredName(target_volume), interval_minutes),
                      failAt # "commit") IN
         [ok |-> r.ok, tasks |-> r.tasks, vbsFile |-> w.vbsFile,
          deleted |-> d.ok /\ ~r.ok]

\* TaskScheduler::register_task. failAt is the first call that fails and
\* deleteOk whether DeleteTask can succeed; deleted tells that the delete
\* step removed a task.
register_task(store, vbs, target_volume, interval_minutes, failAt, deleteOk) ==
    IF failAt = "exe"
    THEN [ok |-> FALSE, tasks |-> store, vbsFile |-> vbs, deleted |-> FALSE]
    ELSE LET w == create_vbs_wrapper(vbs, "exe", target_volume, failAt) IN
    IF ~w.ok
    THEN [ok |-> FALSE, tasks |-> store, vbsFile |-> w.vbsFile, deleted |-> FALSE]
    ELSE IF failAt = "folder"
    THEN [ok |-> FALSE, tasks |-> store, vbsFile |-> w.vbsFile, deleted |-> FALSE]
    ELSE LET d == DeleteTask(store, TASK_NAME, deleteOk) IN  \* let _ = ...
    IF failAt = "definition"
    THEN [ok |-> FALSE, tasks |-> d.tasks, vbsFile |-> w.vbsFile, deleted |-> d.ok]
    ELSE LET r == RegisterTaskDefinition(
                      d.tasks,
                      TaskDefinition(RegisteredName(target_volume), interval_minutes),
                      failAt # "commit") IN
         [ok |-> r.ok, tasks |-> r.tasks, vbsFile |-> w.vbsFile,
          deleted |-> d.ok /\ ~r.ok]

\* TaskScheduler::cleanup_vbs_wrapper
cleanup_vbs_wrapper(vbs, failAt) ==
    IF failAt = "appdata" THEN [ok |-> FALSE, vbsFile |-> vbs]
    ELSE IF vbs.state = "absent" THEN [ok |-> TRUE, vbsFile |-> vbs]
    ELSE IF failAt = "remove" THEN [ok |-> FALSE, vbsFile |-> vbs]
    ELSE [ok |-> TRUE, vbsFile |-> NoVbs]

UnregisterFailPoints == {"none", "folder", "delete", "appdata", "remove"}

\* TaskScheduler::unregister_task
unregister_task(store, vbs, failAt) ==
    IF failAt = "folder"
    THEN [ok |-> FALSE, tasks |-> store, vbsFile |-> vbs, deleted |-> FALSE]
    ELSE LET d == DeleteTask(store, TASK_NAME, failAt # "delete") IN
    IF ~d.ok
    THEN [ok |-> FALSE, tasks |-> store, vbsFile |-> vbs, deleted |-> FALSE]
    ELSE LET c == cleanup_vbs_wrapper(vbs, failAt) IN
         [ok |-> c.ok, tasks |-> d.tasks, vbsFile |-> c.vbsFile,
          deleted |-> ~c.ok]

\* A variant of is_registered: the GetFolder error returned to the caller.
is_registered_propagates(store, folderOk, queryOk) ==
    IF folderOk
    THEN [ok |-> TRUE, value |-> queryOk /\ HasTask(store, TASK_NAME)]
    ELSE [ok |-> FALSE, value |-> FALSE]

\* A variant of is_registered: the folder found taken for the task found.
is_registered_folder_only(store, folderOk, queryOk) ==
    [ok |-> TRUE, value |-> folderOk]

\* TaskScheduler::is_registered: GetFolder, then GetTask(...).is_ok(); ok tells
\* that the call returned a value rather than an error.
is_registered(store, folderOk, queryOk) ==
    IF folderOk
    THEN [ok |-> TRUE, value |-> queryOk /\ HasTask(store, TASK_NAME)]
    ELSE [ok |-> TRUE, value |-> FALSE]

\* The arguments of a registrar call that takes none.
NoArgs == [target_volume |-> NoLevel, interval_minutes |-> 0]

\* The record kept of a registrar call: what it returned and the store it
\* was made on.
CallRecord(op, ok, value, failAt) ==
    [op |-> op, ok |-> ok, value |-> value, failAt |-> failAt,
     before |-> tasks, vbsBefore |-> vbsFile, args |-> NoArgs]

\* The record of a call of register_task, with its arguments.
RegisterRecord(ok, failAt, target_volume, interval_minutes) ==
    [op |-> "register", ok |-> ok, value |-> FALSE, failAt |-> failAt,
     before |-> tasks, vbsBefore |-> vbsFile,
     args |-> [target_volume |-> target_volume,
               interval_minutes |-> interval_minutes]]

\* History of the task: the last successful register or unregister, and
\* whether a failed call has removed the task since.
NextHist(h, op, r) ==
    IF r.ok THEN [lastOk |-> op, removedSince |-> FALSE]
    ELSE IF r.deleted THEN [h EXCEPT !.removedSince = TRUE]
    ELSE h

\* The minutes between two runs of the task the autostart setup registers.
AutostartIntervalMinutes == 5

\* TaskScheduler::register_autostart, called by main.rs: registers the task
\* for the configured target.
register_autostart(store, vbs, target_volume, failAt, deleteOk) ==
    register_task(store, vbs, target_volume, AutostartIntervalMinutes,
                  failAt, deleteOk)

\* ------------------------------------------------- the device accessor

DeviceFaults == {"none", "resolve", "activate", "read", "write"}

\* The calls of set_volume that can fail: ComGuard::new ("com"),
\* get_device_enumerator, get_default_microphone ("resolve"),
\* get_volume_control ("activate") and SetMasterVolumeLevelScalar ("write").
SetVolumeFaults == {"none", "com", "enumerator", "resolve", "activate", "write"}

\* The calls of get_current_volume that can fail.
GetVolumeFaults == {"none", "com", "enumerator", "resolve", "activate", "read"}

\* ---------------------------------------------------------- log rotation

\* rotate_log_if_needed: const MAX_LOG_SIZE (bytes), const MAX_ROTATED_LOGS
MAX_LOG_SIZE == 5 * 1024 * 1024
MAX_ROTATED_LOGS == 3

\* The paths of the log directory: slot 0 is app.log, slot i is app.log.i.
Slots == 0 .. (MAX_ROTATED_LOGS + 1)

\* A file is its content (id, the order of creation) and its size in bytes;
\* NoLog is a path that does not exist.
LogFile(id, size) == [id |-> id, size |-> size]
NoLog == LogFile(0, 0)
NoLogs == [i \in Slots |-> NoLog]

\* Sizes a log file may have: small, exactly 5 MB, one byte more, 6 MB.
LogSizes == {17, MAX_LOG_SIZE, MAX_LOG_SIZE + 1, 6 * 1024 * 1024}

\* std::fs::rename of slot from to slot to, replacing what slot to holds.
rename(fs, from, to) == [fs EXCEPT ![to] = fs[from], ![from] = NoLog]

\* std::fs::remove_file
remove_file(fs, i) == [fs EXCEPT ![i] = NoLog]

\* rotate_log_if_needed, lines 223-230: for i in (1..MAX_ROTATED_LOGS).rev(),
\* app.log.i is renamed to app.log.(i+1) when it exists; the result of the
\* rename is dropped. failing holds the slots whose rename or removal fails.
RECURSIVE ShiftRotated(_, _, _)
ShiftRotated(fs, i, failing) ==
    IF i < 1 THEN fs
    ELSE ShiftRotated(IF fs[i] # NoLog /\ i \notin failing
                      THEN rename(fs, i, i + 1) ELSE fs,
                      i - 1, failing)

\* A variant of Oversized: the comparison written >= instead of >.
Oversized_ge(file) == file # NoLog /\ file.size >= MAX_LOG_SIZE

\* rotate_log_if_needed, lines 220-221: the metadata of the log can be read
\* and its length is above MAX_LOG_SIZE.
Oversized(file) == file # NoLog /\ file.size > MAX_LOG_SIZE

\* A variant of rotate_log_if_needed: the rotated logs shifted from app.log.3
\* on, app.log.3 moving to app.log.4, which is not removed.
rotate_log_if_needed_keep4(fs, failing) ==
    IF ~Oversized(fs[0])
    THEN [ok |-> TRUE, logs |-> fs]
    ELSE LET shifted == ShiftRotated(fs, MAX_ROTATED_LOGS, failing) IN
         IF 0 \in failing
         THEN [ok |-> FALSE, logs |-> shifted]
         ELSE [ok |-> TRUE, logs |-> rename(shifted, 0, 1)]

\* rotate_log_if_needed: the shift of the rotated logs, the rename of the
\* log to app.log.1, whose error is returned, and the removal of app.log.4,
\* whose error is dropped.
rotate_log_if_needed(fs, failing) ==
    IF ~Oversized(fs[0])
    THEN [ok |-> TRUE, logs |-> fs]
    ELSE LET shifted == ShiftRotated(fs, MAX_ROTATED_LOGS - 1, failing) IN
         IF 0 \in failing
         THEN [ok |-> FALSE, logs |-> shifted]
         ELSE LET moved == rename(shifted, 0, 1)
                  oldest_log == MAX_ROTATED_LOGS + 1 IN
              [ok |-> TRUE,
               logs |-> IF oldest_log \in failing
                        THEN moved ELSE remove_file(moved, oldest_log)]

\* The record kept of a call of rotate_log_if_needed: the files before the
\* call, the steps that failed and the result.
RotRecord(called, ok, before, failing) ==
    [called |-> called, ok |-> ok, before |-> before, failing |-> failing]

NoRot == RotRecord(FALSE, TRUE, NoLogs, {})

\* The content a new log file gets: one more than every content there is.
RECURSIVE NewestId(_, _)
NewestId(fs, i) ==
    IF i > MAX_ROTATED_LOGS + 1 THEN 0
    ELSE LET rest == NewestId(fs, i + 1) IN
         IF fs[i].id > rest THEN fs[i].id ELSE rest

\* setup_logging, lines 190-195: OpenOptions create(true).append(true)
\* creates app.log when it does not exist and keeps it when it does.
OpenLog(fs) ==
    IF fs[0] # NoLog THEN fs
    ELSE [fs EXCEPT ![0] = LogFile(NewestId(fs, 0) + 1, 0)]

\* The capture endpoints, and the value of enumerator before the loop has
\* created one.
Endpoints == {1, 2}
NoEndpoint == 0

\* A variant of get_default_microphone: the enumerator answering with the
\* endpoint that was the default when the enumerator was created.
get_default_microphone_at_creation(created_at, current_default) == created_at

\* AudioController::get_default_microphone: GetDefaultAudioEndpoint(eCapture,
\* eConsole) answers with the endpoint that is the default at the time of the
\* call, whenever the enumerator was created.
get_default_microphone(created_at, current_default) == current_default

\* The record kept of the endpoint an operation resolved: the operation, the
\* endpoint it acted on and the endpoint that was the default at that time.
Resolved(by, dev, current_default) ==
    [by |-> by, dev |-> dev, default |-> current_default]

NoResolved == Resolved("none", NoEndpoint, NoEndpoint)

\* set_volume and get_current_volume reach get_volume_control with a device
\* unless the range check, ComGuard::new, the enumerator or the resolution
\* fails.
ReachesDevice(target_volume, f) ==
    InRange(target_volume) /\ f \notin {"com", "enumerator", "resolve"}

\* A variant of set_volume: the range check made after the device has been
\* resolved, just before the write.
set_volume_late_check(current, target_volume, f) ==
    IF f = "com"
    THEN [ok |-> FALSE, level |-> current, com |-> TRUE, guard |-> FALSE,
          device |-> FALSE, wrote |-> FALSE]
    ELSE IF f \in {"enumerator", "resolve", "activate"} \/ ~InRange(target_volume)
    THEN [ok |-> FALSE, level |-> current, com |-> TRUE, guard |-> TRUE,
          device |-> TRUE, wrote |-> FALSE]
    ELSE [ok |-> f # "write",
          level |-> IF f = "write" THEN current ELSE target_volume,
          com |-> TRUE, guard |-> TRUE, device |-> TRUE, wrote |-> TRUE]

\* AudioController::set_volume: the range check, then ComGuard::new, the
\* default device and the write. f is the first call that fails. com: COM
\* initialization was attempted; guard: the ComGuard was obtained; device: a
\* device API was called; wrote: the write was issued.
set_volume(current, target_volume, f) ==
    IF ~InRange(target_volume)
    THEN [ok |-> FALSE, level |-> current, com |-> FALSE, guard |-> FALSE,
          device |-> FALSE, wrote |-> FALSE]
    ELSE IF f = "com"
    THEN [ok |-> FALSE, level |-> current, com |-> TRUE, guard |-> FALSE,
          device |-> FALSE, wrote |-> FALSE]
    ELSE IF f \in {"enumerator", "resolve", "activate"}
    THEN [ok |-> FALSE, level |-> current, com |-> TRUE, guard |-> TRUE,
          device |-> TRUE, wrote |-> FALSE]
    ELSE [ok |-> f # "write",
          level |-> IF f = "write" THEN current ELSE target_volume,
          com |-> TRUE, guard |-> TRUE, device |-> TRUE, wrote |-> TRUE]

\* AudioController::get_current_volume: ComGuard::new, the default device
\* and the read; value is the level read.
get_current_volume(current, f) ==
    IF f = "com"
    THEN [ok |-> FALSE, value |-> NoLevel, com |-> TRUE, guard |-> FALSE,
          device |-> FALSE]
    ELSE [ok |-> f = "none",
          value |-> IF f = "none" THEN current ELSE NoLevel,
          com |-> TRUE, guard |-> TRUE, device |-> TRUE]

\* The record kept of a call of set_volume or get_current_volume: value is
\* the level written or read.
AccRecord(op, target, r, value) ==
    [op |-> op, target |-> target, ok |-> r.ok, com |-> r.com,
     device |-> r.device, wrote |-> op = "set_volume" /\ r.wrote,
     value |-> value]

NoAcc ==
    [op |-> "none", target |-> NoLevel, ok |-> TRUE, com |-> FALSE,
     device |-> FALSE, wrote |-> FALSE, value |-> NoLevel]

\* An entry of the API log: the entry point, the API family ("device" or
\* "scheduler") and whether the calling thread held a ComGuard.
ApiCall(entry, api, guarded) ==
    [entry |-> entry, api |-> api, guarded |-> guarded]

\* A variant of NeedsCorrection: the comparison written >= instead of >.
NeedsCorrection_ge(current, target_volume) ==
    Abs(current - target_volume) >= TOLERANCE

\* diff > TOLERANCE, with diff = (current - target_volume).abs()
NeedsCorrection(current, target_volume) ==
    Abs(current - target_volume) > TOLERANCE

\* AudioController::check_and_adjust_volume on a device at level current;
\* f is the device call that fails in this pass.
check_and_adjust_volume(current, target_volume, f) ==
    IF f \in {"resolve", "activate", "read"}
    THEN [ok |-> FALSE, level |-> current,
          pass |-> [read |-> "err", current |-> NoLevel,
                    writes |-> 0, value |-> NoLevel]]
    ELSE IF NeedsCorrection(current, target_volume)
    THEN [ok |-> f # "write",
          level |-> IF f = "write" THEN current ELSE target_volume,
          pass |-> [read |-> "ok", current |-> current,
                    writes |-> 1, value |-> target_volume]]
    ELSE [ok |-> TRUE, level |-> current,
          pass |-> [read |-> "ok", current |-> current,
                    writes |-> 0, value |-> NoLevel]]

\* A variant of AfterPass: the error of a pass returned with ? instead of
\* being logged.
AfterPass_propagate(ok) == IF ok THEN "sleep" ELSE "failed"

\* monitor_and_control, lines 116-118: where the loop goes after a pass.
\* An error of the pass is logged and the loop sleeps as after a good pass.
AfterPass(ok) == "sleep"

\* ---------------------------------------------------------------- Init

NoCall ==
    [op |-> "none", ok |-> TRUE, value |-> FALSE, failAt |-> "none",
     before |-> <<>>, vbsBefore |-> NoVbs, args |-> NoArgs]

NoHist == [lastOk |-> "none", removedSince |-> FALSE]

\* Cli::parse without a subcommand: cli.command is None, the monitoring mode.
Monitoring == [name |-> "monitor", volume |-> 0]

Configs ==
    [target_volume : Targets, check_interval_ms : Intervals,
     enable_tray : BOOLEAN, enable_autostart : BOOLEAN]

\* The process before run(): nothing created, the device at any level.
ProcInit ==
    /\ supPc = "load"
    /\ consoleRunning = FALSE
    /\ handlerSet = FALSE
    /\ created = FALSE
    /\ running = FALSE
    /\ nStores = 0
    /\ loopPc = "unspawned"
    /\ iter = NoIter
    /\ iterated = FALSE
    /\ initWrite = [state |-> "none", value |-> NoLevel]
    /\ faults = 0
    /\ drifts = 0
    /\ trayPc = "none"
    /\ menuQ = <<>>
    /\ chan = <<>>
    /\ clicks = 0
    /\ defaultDev = 1
    /\ idle = 990
    /\ enumerator = NoEndpoint
    /\ resolved = NoResolved
    /\ rot = NoRot
    /\ acc = NoAcc
    /\ comHeld = {}
    /\ apiLog = {}

RegIdle ==
    /\ sched = "none"
    /\ last = NoCall
    /\ regHist = NoHist
    /\ calls = 0

Init ==
    /\ ProcInit
    /\ cfg \in Configs
    /\ level \in Levels
    /\ RegIdle
    /\ tasks = <<>>
    /\ vbsFile = NoVbs
    /\ cmd = Monitoring
    /\ logs = OpenLog(NoLogs)
    /\ cfgFile = FileOf(cfg)
    /\ cli = NoOptions

Exited == supPc \in {"exit_ok", "exit_err", "exit_usage"}

\* A variant of stop: the flag flipped instead of cleared.
stop_toggle ==
    /\ running' = ~running
    /\ nStores' = nStores + 1
    /\ UNCHANGED created

\* AudioController::stop: self.running.store(false, Ordering::Relaxed)
stop ==
    /\ running' = FALSE
    /\ nStores' = nStores + 1
    /\ UNCHANGED created

\* ------------------------------------------------------ the loop thread

\* monitor_and_control, lines 103-113: the range check, ComGuard::new and
\* get_device_enumerator, each returning its error to the thread's closure.
LoopStart ==
    /\ ~Exited
    /\ loopPc = "start"
    /\ \E f \in {"none", "com", "enumerator"} :
        LET ok == InRange(cfg.target_volume) /\ f = "none"
            guard == InRange(cfg.target_volume) /\ f # "com" IN
        /\ f # "none" => (InRange(cfg.target_volume) /\ faults < MaxFaults)
        /\ faults' = IF f = "none" THEN faults ELSE faults + 1
        /\ loopPc' = IF ok THEN "check" ELSE "failed"
        \* the guard lives until monitor_and_control returns
        /\ comHeld' = IF ok THEN comHeld \cup {"loop"} ELSE comHeld
        /\ apiLog' = IF guard
                      THEN apiLog \cup {ApiCall("monitor_and_control", "device",
                                                guard)}
                      ELSE apiLog
    /\ UNCHANGED <<supVars, flagVars, iter, iterated, initWrite, level, drifts,
                   trayVars, regVars, cmd, acc>>
    /\ UNCHANGED cfgVars
    /\ enumerator' = IF loopPc' = "check" THEN defaultDev ELSE enumerator
    /\ UNCHANGED <<defaultDev, idle, resolved>>
    /\ UNCHANGED logVars

\* A variant of LoopCheck: the loop written as loop { ... }, the flag unread.
LoopCheck_ignoresFlag ==
    /\ ~Exited
    /\ loopPc = "check"
    /\ loopPc' = "adjust"
    /\ UNCHANGED <<supVars, flagVars, iter, iterated, initWrite, devVars,
                   trayVars, regVars>>
    /\ UNCHANGED cmdVars
    /\ UNCHANGED cfgVars
    /\ UNCHANGED endpointVars
    /\ UNCHANGED logVars

\* while running.load(Ordering::Relaxed)
LoopCheck ==
    /\ ~Exited
    /\ loopPc = "check"
    /\ loopPc' = IF running THEN "adjust" ELSE "done"
    \* on return the ComGuard is dropped
    /\ comHeld' = IF running THEN comHeld ELSE comHeld \ {"loop"}
    /\ UNCHANGED <<supVars, flagVars, iter, iterated, initWrite, devVars,
                   trayVars, regVars, cmd, acc, apiLog>>
    /\ UNCHANGED cfgVars
    /\ UNCHANGED endpointVars
    /\ UNCHANGED logVars

\* One pass: check_and_adjust_volume and the handling of its result.
LoopAdjust ==
    /\ ~Exited
    /\ loopPc = "adjust"
    /\ \E f \in DeviceFaults :
        LET device == get_default_microphone(enumerator, defaultDev)
            current == IF device = defaultDev THEN level ELSE idle
            r == check_and_adjust_volume(current, cfg.target_volume, f) IN
        /\ ~r.ok => faults < MaxFaults
        /\ r.ok => f = "none"
        /\ faults' = IF r.ok THEN faults ELSE faults + 1
        /\ iter' = r.pass
        /\ level' = IF device = defaultDev THEN r.level ELSE level
        /\ idle' = IF device = defaultDev THEN idle ELSE r.level
        \* a pass that fails before it has read the level acts on no endpoint
        /\ resolved' = IF r.pass.read = "ok"
                       THEN Resolved("check_and_adjust_volume", device,
                                     defaultDev)
                       ELSE Resolved("check_and_adjust_volume", NoEndpoint,
                                     NoEndpoint)
        /\ loopPc' = AfterPass(r.ok)
    /\ iterated' = TRUE
    /\ apiLog' = apiLog \cup {ApiCall("monitor_and_control", "device",
                                      "loop" \in comHeld)}
    /\ UNCHANGED <<supVars, flagVars, initWrite, drifts, trayVars, regVars,
                   cmd, acc, comHeld>>
    /\ UNCHANGED cfgVars
    /\ UNCHANGED <<defaultDev, enumerator>>
    /\ UNCHANGED logVars

\* std::thread::sleep(check_interval_ms)
LoopSleep ==
    /\ ~Exited
    /\ loopPc = "sleep"
    /\ loopPc' = "check"
    /\ UNCHANGED <<supVars, flagVars, iter, iterated, initWrite, devVars,
                   trayVars, regVars>>
    /\ UNCHANGED cmdVars
    /\ UNCHANGED cfgVars
    /\ UNCHANGED endpointVars
    /\ UNCHANGED logVars

Loop == LoopStart \/ LoopCheck \/ LoopAdjust \/ LoopSleep

\* Another program or the user changes the level of the device.
ExternalChange ==
    /\ ~Exited
    /\ drifts < MaxDrifts
    /\ \E l \in Levels \ {level} : level' = l
    /\ drifts' = drifts + 1
    /\ UNCHANGED <<supVars, flagVars, loopVars, initWrite, faults, trayVars,
                   regVars>>
    /\ UNCHANGED cmdVars
    /\ UNCHANGED cfgVars
    /\ UNCHANGED endpointVars
    /\ UNCHANGED logVars

\* ------------------------------------------------------ the supervisor

\* A variant of SupLoadConfig: save called before validate.
SupLoadConfig_saves_first ==
    /\ supPc = "load"
    /\ cfg' = Merged(cfgFile, cli)
    /\ \E saved \in {"written", "untouched", "truncated"} :
        /\ supPc' = IF saved = "written" /\ validate(cfg')
                    THEN "autostart" ELSE "exit_err"
        /\ cfgFile' = CASE saved = "written" -> FileOf(cfg')
                         [] saved = "untouched" -> cfgFile
                         [] saved = "truncated" -> UnreadableFile
    /\ UNCHANGED <<consoleRunning, handlerSet, flagVars, loopVars,
                   initWrite, devVars, trayVars, regVars, cli>>
    /\ UNCHANGED cmdVars
    /\ UNCHANGED endpointVars
    /\ UNCHANGED logVars

\* Config::load, lines 108-114: validate, then save, each returning its error.
SupLoadConfig ==
    /\ supPc = "load"
    /\ cfg' = Merged(cfgFile, cli)
    /\ \/ /\ ~validate(cfg')
          /\ supPc' = "exit_err"
          /\ UNCHANGED cfgFile
       \/ /\ validate(cfg')
          /\ \E saved \in {"written", "untouched", "truncated"} :
              /\ supPc' = IF saved = "written" THEN "autostart" ELSE "exit_err"
              /\ cfgFile' = CASE saved = "written" -> FileOf(cfg')
                               [] saved = "untouched" -> cfgFile
                               [] saved = "truncated" -> UnreadableFile
    /\ UNCHANGED <<consoleRunning, handlerSet, flagVars, loopVars,
                   initWrite, devVars, trayVars, regVars, cli>>
    /\ UNCHANGED cmdVars
    /\ UNCHANGED endpointVars
    /\ UNCHANGED logVars

\* A variant of SupAutostart: setup_autostart registering whatever the
\* presence check says.
SupAutostart_always_registers ==
    /\ supPc = "autostart"
    /\ supPc' = "create"
    /\ \/ /\ ~cfg.enable_autostart
          /\ UNCHANGED <<tasks, vbsFile, last, regHist, apiLog>>
       \/ /\ cfg.enable_autostart
          \* TaskScheduler::new and the calls after it, without a ComGuard
          /\ apiLog' = apiLog \cup {ApiCall("setup_autostart", "scheduler",
                                            "main" \in comHeld)}
          /\ \E newOk, folderOk, queryOk \in BOOLEAN :
              LET q == is_registered(tasks, folderOk, queryOk) IN
              \/ /\ ~newOk
                 /\ UNCHANGED <<tasks, vbsFile, last, regHist>>
              \/ /\ newOk
                 /\ FALSE
                 /\ last' = CallRecord("is_registered", q.ok, q.value,
                                       IF folderOk THEN "none" ELSE "folder")
                 /\ UNCHANGED <<tasks, vbsFile, regHist>>
              \/ /\ newOk
                 /\ q.ok
                 /\ \E failAt \in RegisterFailPoints, deleteOk \in BOOLEAN :
                     LET r == register_autostart(tasks, vbsFile,
                                  cfg.target_volume, failAt, deleteOk) IN
                     /\ tasks' = r.tasks
                     /\ vbsFile' = r.vbsFile
                     /\ last' = [RegisterRecord(r.ok, failAt, cfg.target_volume,
                                                AutostartIntervalMinutes)
                                 EXCEPT !.value = q.value]
                     /\ regHist' = NextHist(regHist, "register", r)
    /\ UNCHANGED <<cfg, consoleRunning, handlerSet, flagVars, loopVars,
                   initWrite, devVars, trayVars, sched, calls, cmd, acc, comHeld>>
    /\ UNCHANGED cfgVars
    /\ UNCHANGED endpointVars
    /\ UNCHANGED logVars

\* run, lines 41-47, and setup_autostart: a scheduler session, the presence
\* check and the registration when the task is not reported present; an
\* error is only logged, and the session ends with the call.
SupAutostart ==
    /\ supPc = "autostart"
    /\ supPc' = "create"
    /\ \/ /\ ~cfg.enable_autostart
          /\ UNCHANGED <<tasks, vbsFile, last, regHist, apiLog>>
       \/ /\ cfg.enable_autostart
          \* TaskScheduler::new and the calls after it, without a ComGuard
          /\ apiLog' = apiLog \cup {ApiCall("setup_autostart", "scheduler",
                                            "main" \in comHeld)}
          /\ \E newOk, folderOk, queryOk \in BOOLEAN :
              LET q == is_registered(tasks, folderOk, queryOk) IN
              \/ /\ ~newOk
                 /\ UNCHANGED <<tasks, vbsFile, last, regHist>>
              \/ /\ newOk
                 /\ q.ok /\ q.value
                 /\ last' = CallRecord("is_registered", q.ok, q.value,
                                       IF folderOk THEN "none" ELSE "folder")
                 /\ UNCHANGED <<tasks, vbsFile, regHist>>
              \/ /\ newOk
                 /\ q.ok /\ ~q.value
                 /\ \E failAt \in RegisterFailPoints, deleteOk \in BOOLEAN :
                     LET r == register_autostart(tasks, vbsFile,
                                  cfg.target_volume, failAt, deleteOk) IN
                     /\ tasks' = r.tasks
                     /\ vbsFile' = r.vbsFile
                     \* value: what the presence check before the call said
                     /\ last' = [RegisterRecord(r.ok, failAt, cfg.target_volume,
                                                AutostartIntervalMinutes)
                                 EXCEPT !.value = q.value]
                     /\ regHist' = NextHist(regHist, "register", r)
    /\ UNCHANGED <<cfg, consoleRunning, handlerSet, flagVars, loopVars,
                   initWrite, devVars, trayVars, sched, calls, cmd, acc, comHeld>>
    /\ UNCHANGED cfgVars
    /\ UNCHANGED endpointVars
    /\ UNCHANGED logVars

\* AudioController::new
SupCreate ==
    /\ supPc = "create"
    /\ created' = TRUE
    /\ running' = TRUE
    /\ supPc' = "initvol"
    /\ UNCHANGED <<cfg, consoleRunning, handlerSet, nStores, loopVars,
                   initWrite, devVars, trayVars, regVars>>
    /\ UNCHANGED cmdVars
    /\ UNCHANGED cfgVars
    /\ UNCHANGED endpointVars
    /\ UNCHANGED logVars

\* A variant of AfterInitialWrite: the error logged, as the autostart
\* setup's error is, and the loop spawned all the same.
AfterInitialWrite_logged(ok) == "spawn"

\* run, lines 53-56, where an error of the initial set_volume goes.
AfterInitialWrite(ok) == IF ok THEN "spawn" ELSE "exit_err"

\* run, lines 53-56: set_volume(config.target_volume)?
SupInitVolume ==
    /\ supPc = "initvol"
    /\ \E f \in SetVolumeFaults :
        LET r == set_volume(level, cfg.target_volume, f) IN
        /\ resolved' = IF ReachesDevice(cfg.target_volume, f)
                       THEN Resolved("set_volume",
                                     get_default_microphone(defaultDev, defaultDev),
                                     defaultDev)
                       ELSE resolved
        /\ f # "none" => (r.com /\ faults < MaxFaults)
        /\ faults' = IF f = "none" THEN faults ELSE faults + 1
        /\ level' = r.level
        /\ initWrite' = IF r.ok
                        THEN [state |-> "ok", value |-> r.level]
                        ELSE [state |-> "err", value |-> NoLevel]
        /\ acc' = AccRecord("set_volume", cfg.target_volume, r,
                            IF r.wrote THEN cfg.target_volume ELSE NoLevel)
        /\ apiLog' = IF r.device
                      THEN apiLog \cup {ApiCall("set_volume", "device", r.guard)}
                      ELSE apiLog
        /\ supPc' = AfterInitialWrite(r.ok)
    /\ UNCHANGED <<cfg, consoleRunning, handlerSet, flagVars, loopVars, drifts,
                   trayVars, regVars, cmd, comHeld>>
    /\ UNCHANGED cfgVars
    /\ UNCHANGED <<defaultDev, idle, enumerator>>
    /\ UNCHANGED logVars

\* run, lines 58-70: thread::spawn of the loop, then the mode.
SupSpawn ==
    /\ supPc = "spawn"
    /\ loopPc' = "start"
    /\ supPc' = IF cfg.enable_tray THEN "run_tray" ELSE "set_handler"
    /\ UNCHANGED <<cfg, consoleRunning, handlerSet, flagVars, iter, iterated,
                   initWrite, devVars, trayVars, regVars>>
    /\ UNCHANGED cmdVars
    /\ UNCHANGED cfgVars
    /\ UNCHANGED endpointVars
    /\ UNCHANGED logVars

\* run_tray, lines 150-156: the channel and the tray thread.
SupRunTray ==
    /\ supPc = "run_tray"
    /\ trayPc' = "start"
    /\ supPc' = "recv"
    /\ UNCHANGED <<cfg, consoleRunning, handlerSet, flagVars, loopVars,
                   initWrite, devVars, menuQ, chan, clicks, regVars>>
    /\ UNCHANGED cmdVars
    /\ UNCHANGED cfgVars
    /\ UNCHANGED endpointVars
    /\ UNCHANGED logVars

\* A variant of SupRecv: the Err arm of the match retrying instead of
\* breaking, so that only a Quit message ends run_tray.
SupRecv_quit_only ==
    /\ supPc = "recv"
    /\ chan # <<>>
    /\ \/ /\ Head(chan) = "Quit"
          /\ stop
          /\ supPc' = "tray_join"
       \/ /\ Head(chan) \in {"ShowConfig", "ToggleMonitoring"}
          /\ UNCHANGED <<supPc, flagVars>>
    /\ chan' = Tail(chan)
    /\ UNCHANGED <<cfg, consoleRunning, handlerSet, loopVars, initWrite,
                   devVars, trayPc, menuQ, clicks, regVars>>
    /\ UNCHANGED <<cmdVars, cfgVars, endpointVars, logVars>>

\* A variant of SupRecv: the ToggleMonitoring arm pausing the monitoring by
\* a call of stop().
SupRecv_toggle_stops ==
    /\ supPc = "recv"
    /\ \/ /\ chan # <<>>
          /\ Head(chan) \in {"Quit", "ToggleMonitoring"}
          /\ stop
          /\ chan' = Tail(chan)
          /\ supPc' = IF Head(chan) = "Quit" THEN "tray_join" ELSE supPc
       \/ /\ chan # <<>>
          /\ Head(chan) = "ShowConfig"
          /\ chan' = Tail(chan)
          /\ UNCHANGED <<supPc, flagVars>>
       \/ /\ chan = <<>>
          /\ trayPc = "ended"
          /\ supPc' = "tray_join"
          /\ UNCHANGED <<chan, flagVars>>
    /\ UNCHANGED <<cfg, consoleRunning, handlerSet, loopVars, initWrite,
                   devVars, trayPc, menuQ, clicks, regVars>>
    /\ UNCHANGED <<cmdVars, cfgVars, endpointVars, logVars>>

\* run_tray, lines 159-178: one receiver.recv() and its match arm.
SupRecv ==
    /\ supPc = "recv"
    /\ \/ /\ chan # <<>>
          /\ Head(chan) = "Quit"
          /\ stop
          /\ chan' = Tail(chan)
          /\ supPc' = "tray_join"
       \/ /\ chan # <<>>
          /\ Head(chan) \in {"ShowConfig", "ToggleMonitoring"}
          /\ chan' = Tail(chan)
          /\ UNCHANGED <<supPc, flagVars>>
       \/ /\ chan = <<>>
          /\ trayPc = "ended"
          /\ supPc' = "tray_join"
          /\ UNCHANGED <<chan, flagVars>>
    /\ UNCHANGED <<cfg, consoleRunning, handlerSet, loopVars, initWrite,
                   devVars, trayPc, menuQ, clicks, regVars>>
    /\ UNCHANGED cmdVars
    /\ UNCHANGED cfgVars
    /\ UNCHANGED endpointVars
    /\ UNCHANGED logVars

\* run_tray, lines 180-181: tray_thread.join(), then Ok to run.
SupTrayJoin ==
    /\ supPc = "tray_join"
    /\ trayPc = "ended"
    /\ supPc' = "cleanup"
    /\ UNCHANGED <<cfg, consoleRunning, handlerSet, flagVars, loopVars,
                   initWrite, devVars, trayVars, regVars>>
    /\ UNCHANGED cmdVars
    /\ UNCHANGED cfgVars
    /\ UNCHANGED endpointVars
    /\ UNCHANGED logVars

\* run, lines 80-87: the local flag and ctrlc::set_handler(...)?
SupSetHandler ==
    /\ supPc = "set_handler"
    /\ consoleRunning' = TRUE
    /\ \E ok \in BOOLEAN :
        /\ handlerSet' = ok
        /\ supPc' = IF ok THEN "console_wait" ELSE "exit_err"
    /\ UNCHANGED <<cfg, flagVars, loopVars, initWrite, devVars, trayVars,
                   regVars>>
    /\ UNCHANGED cmdVars
    /\ UNCHANGED cfgVars
    /\ UNCHANGED endpointVars
    /\ UNCHANGED logVars

\* The Ctrl-C handler: r.store(false) on the supervisor's local flag.
CtrlC ==
    /\ ~Exited
    /\ handlerSet
    /\ consoleRunning
    /\ consoleRunning' = FALSE
    /\ UNCHANGED <<supPc, cfg, handlerSet, flagVars, loopVars, initWrite,
                   devVars, trayVars, regVars>>
    /\ UNCHANGED cmdVars
    /\ UNCHANGED cfgVars
    /\ UNCHANGED endpointVars
    /\ UNCHANGED logVars

\* run, lines 89-91: the wait ends when the local flag is false.
SupConsoleWait ==
    /\ supPc = "console_wait"
    /\ ~consoleRunning
    /\ supPc' = "cleanup"
    /\ UNCHANGED <<cfg, consoleRunning, handlerSet, flagVars, loopVars,
                   initWrite, devVars, trayVars, regVars>>
    /\ UNCHANGED cmdVars
    /\ UNCHANGED cfgVars
    /\ UNCHANGED endpointVars
    /\ UNCHANGED logVars

\* run, lines 94-96: audio_controller.stop()
SupCleanup ==
    /\ supPc = "cleanup"
    /\ stop
    /\ supPc' = "join"
    /\ UNCHANGED <<cfg, consoleRunning, handlerSet, loopVars, initWrite,
                   devVars, trayVars, regVars>>
    /\ UNCHANGED cmdVars
    /\ UNCHANGED cfgVars
    /\ UNCHANGED endpointVars
    /\ UNCHANGED logVars

\* A variant of SupJoin: the thread detached, run returning without join().
SupJoin_detached ==
    /\ supPc = "join"
    /\ supPc' = "exit_ok"
    /\ UNCHANGED <<cfg, consoleRunning, handlerSet, flagVars, loopVars,
                   initWrite, devVars, trayVars, regVars, cmdVars>>
    /\ UNCHANGED cfgVars
    /\ UNCHANGED endpointVars
    /\ UNCHANGED logVars

\* run, lines 97-100: monitoring_thread.join(), then Ok(())
SupJoin ==
    /\ supPc = "join"
    /\ loopPc \in {"done", "failed"}
    /\ supPc' = "exit_ok"
    /\ UNCHANGED <<cfg, consoleRunning, handlerSet, flagVars, loopVars,
                   initWrite, devVars, trayVars, regVars>>
    /\ UNCHANGED cmdVars
    /\ UNCHANGED cfgVars
    /\ UNCHANGED endpointVars
    /\ UNCHANGED logVars

Supervisor ==
    \/ SupLoadConfig \/ SupAutostart \/ SupCreate \/ SupInitVolume
    \/ SupSpawn \/ SupRunTray \/ SupRecv \/ SupTrayJoin \/ SupSetHandler
    \/ SupConsoleWait \/ SupCleanup \/ SupJoin

\* ------------------------------------------------------ the tray thread

MenuItems == {"quit", "config", "toggle"}

\* TrayApp::run, lines 81-115: the event loop, the menu and the icon; an
\* error ends the thread, which drops the sender.
TrayStart ==
    /\ ~Exited
    /\ trayPc = "start"
    /\ \E ok \in BOOLEAN : trayPc' = IF ok THEN "polling" ELSE "ended"
    /\ UNCHANGED <<supVars, flagVars, loopVars, initWrite, devVars, menuQ,
                   chan, clicks, regVars>>
    /\ UNCHANGED cmdVars
    /\ UNCHANGED cfgVars
    /\ UNCHANGED endpointVars
    /\ UNCHANGED logVars

\* The user clicks an item of the tray menu.
UserClick ==
    /\ ~Exited
    /\ trayPc = "polling"
    /\ clicks < MaxClicks
    /\ \E item \in MenuItems : menuQ' = Append(menuQ, item)
    /\ clicks' = clicks + 1
    /\ UNCHANGED <<supVars, flagVars, loopVars, initWrite, devVars, trayPc,
                   chan, regVars>>
    /\ UNCHANGED cmdVars
    /\ UNCHANGED cfgVars
    /\ UNCHANGED endpointVars
    /\ UNCHANGED logVars

\* The message check_menu_events sends for a menu event.
MessageFor(item) ==
    CASE item = "quit" -> "Quit"
      [] item = "config" -> "ShowConfig"
      [] item = "toggle" -> "ToggleMonitoring"

\* TrayEventHandler::check_menu_events: one event, one message; Quit also
\* exits the event loop, which ends the thread.
TrayCheckMenuEvents ==
    /\ ~Exited
    /\ trayPc = "polling"
    /\ menuQ # <<>>
    /\ chan' = Append(chan, MessageFor(Head(menuQ)))
    /\ menuQ' = Tail(menuQ)
    /\ trayPc' = IF Head(menuQ) = "quit" THEN "ended" ELSE "polling"
    /\ UNCHANGED <<supVars, flagVars, loopVars, initWrite, devVars, clicks,
                   regVars>>
    /\ UNCHANGED cmdVars
    /\ UNCHANGED cfgVars
    /\ UNCHANGED endpointVars
    /\ UNCHANGED logVars

\* run_app returns with an error: the thread ends without a Quit.
TrayFail ==
    /\ ~Exited
    /\ trayPc = "polling"
    /\ trayPc' = "ended"
    /\ UNCHANGED <<supVars, flagVars, loopVars, initWrite, devVars, menuQ,
                   chan, clicks, regVars>>
    /\ UNCHANGED cmdVars
    /\ UNCHANGED cfgVars
    /\ UNCHANGED endpointVars
    /\ UNCHANGED logVars

Tray == TrayStart \/ UserClick \/ TrayCheckMenuEvents \/ TrayFail

Next == Supervisor \/ Loop \/ Tray \/ CtrlC \/ ExternalChange

Spec == Init /\ [][Next]_vars

\* The monitoring process with one valid configuration and no autostart
\* setup, in tray mode and in console mode.
LoopInit ==
    /\ ProcInit
    /\ cfg \in {c \in Configs : /\ validate(c)
                                /\ c.target_volume = 500
                                /\ ~c.enable_autostart}
    /\ level \in {500, 511}
    /\ RegIdle
    /\ tasks = <<>>
    /\ vbsFile = NoVbs
    /\ cmd = Monitoring
    /\ logs = OpenLog(NoLogs)
    /\ cfgFile = FileOf(cfg)
    /\ cli = NoOptions

\* The loop thread is scheduled, its sleeps end and its device calls return.
FairSpec == LoopInit /\ [][Next]_vars /\ WF_vars(Loop)

\* The main thread and the loop thread are both scheduled: blocking calls
\* return once what they wait for has happened.
ShutdownSpec ==
    LoopInit /\ [][Next]_vars /\ WF_vars(Loop) /\ WF_vars(Supervisor)

\* A cancellation signal has been given: Ctrl-C has run the handler of
\* console mode, or the tray has sent Quit.
\* Monitoring mode from the inputs of Config::load: a configuration file
\* and the options of the command line.
LoadInit ==
    /\ ProcInit
    /\ RegIdle
    /\ cmd = Monitoring
    /\ logs = OpenLog(NoLogs)
    /\ cfg = DefaultConfig
    /\ cfgFile \in Files
    /\ cli \in Clis
    /\ level = 490
    /\ tasks = <<>>
    /\ vbsFile = NoVbs

LoadSpec == LoadInit /\ [][Next]_vars

Cancelled ==
    \/ handlerSet /\ ~consoleRunning
    \/ \E i \in DOMAIN chan : chan[i] = "Quit"

\* ------------------------------------------- the registrar's operations

\* Task stores the registrar may start on: with or without its task, next
\* to the task of another program.
InitStores ==
    {<<>>,
     <<TaskDefinition(OTHER_TASK, 10)>>,
     <<TaskDefinition(OTHER_TASK, 10), TaskDefinition(TASK_NAME, 5)>>}

RegInit ==
    /\ ProcInit
    /\ cfg = [target_volume |-> 500, check_interval_ms |-> 100,
              enable_tray |-> FALSE, enable_autostart |-> FALSE]
    /\ level = 500
    /\ RegIdle
    /\ tasks \in InitStores
    /\ vbsFile = IF HasTask(tasks, TASK_NAME)
                 THEN create_vbs_wrapper(NoVbs, "exe", 950, "none").vbsFile
                 ELSE NoVbs
    /\ cmd = Monitoring
    /\ logs = OpenLog(NoLogs)
    /\ cfgFile = FileOf(cfg)
    /\ cli = NoOptions

procVars == <<supVars, flagVars, loopVars, initWrite, devVars, trayVars>>

\* TaskScheduler::new: CoCreateInstance and Connect
SchedulerNew ==
    /\ sched = "none"
    /\ \E ok \in BOOLEAN : sched' = IF ok THEN "connected" ELSE "none"
    /\ UNCHANGED <<procVars, tasks, vbsFile, last, regHist, calls>>
    /\ UNCHANGED cmdVars
    /\ UNCHANGED cfgVars
    /\ UNCHANGED endpointVars
    /\ UNCHANGED logVars

\* A call of register_task
RegisterTask ==
    /\ sched = "connected"
    /\ calls < MaxCalls
    /\ \E tv \in RegTargets, m \in RegIntervals,
          failAt \in RegisterFailPoints, deleteOk \in BOOLEAN :
        LET r == register_task(tasks, vbsFile, tv, m, failAt, deleteOk) IN
        /\ tasks' = r.tasks
        /\ vbsFile' = r.vbsFile
        /\ last' = RegisterRecord(r.ok, failAt, tv, m)
        /\ regHist' = NextHist(regHist, "register", r)
    /\ calls' = calls + 1
    /\ UNCHANGED <<procVars, sched>>
    /\ UNCHANGED cmdVars
    /\ UNCHANGED cfgVars
    /\ UNCHANGED endpointVars
    /\ UNCHANGED logVars

\* A call of unregister_task
UnregisterTask ==
    /\ sched = "connected"
    /\ calls < MaxCalls
    /\ \E failAt \in UnregisterFailPoints :
        LET r == unregister_task(tasks, vbsFile, failAt) IN
        /\ tasks' = r.tasks
        /\ vbsFile' = r.vbsFile
        /\ last' = CallRecord("unregister", r.ok, FALSE, failAt)
        /\ regHist' = NextHist(regHist, "unregister", r)
    /\ calls' = calls + 1
    /\ UNCHANGED <<procVars, sched>>
    /\ UNCHANGED cmdVars
    /\ UNCHANGED cfgVars
    /\ UNCHANGED endpointVars
    /\ UNCHANGED logVars

\* What a call of is_registered does to the task store and the wrapper.
IsRegisteredEffect ==
    UNCHANGED <<tasks, vbsFile>>

\* A call of is_registered
IsRegistered ==
    /\ sched = "connected"
    /\ calls < MaxCalls
    /\ \E failAt \in {"none", "folder", "query"} :
        LET q == is_registered(tasks, failAt # "folder", failAt # "query") IN
        last' = CallRecord("is_registered", q.ok, q.value, failAt)
    /\ IsRegisteredEffect
    /\ calls' = calls + 1
    /\ UNCHANGED <<procVars, sched, regHist>>
    /\ UNCHANGED cmdVars
    /\ UNCHANGED cfgVars
    /\ UNCHANGED endpointVars
    /\ UNCHANGED logVars

RegNext == SchedulerNew \/ RegisterTask \/ UnregisterTask \/ IsRegistered

RegSpec == RegInit /\ [][RegNext]_vars

\* ------------------------------------------------ the one-shot commands

\* A command line: the subcommand word ("" when there is none) and its
\* argument (NoLevel when there is none).
CommandLine(word, arg) == [word |-> word, arg |-> arg]

\* Cli::parse on a command line without options: the subcommands are the
\* variants of Commands in kebab case; set-volume takes a u8 in 0..=100 and
\* the others take nothing. A line the parser rejects ends the process in
\* the parser, with its usage error.
Cli_parse(line) ==
    IF line.word = "" /\ line.arg = NoLevel
    THEN [ok |-> TRUE, cmd |-> Monitoring]
    ELSE IF /\ line.word \in {"install", "uninstall", "config", "get-volume"}
            /\ line.arg = NoLevel
    THEN [ok |-> TRUE, cmd |-> [name |-> line.word, volume |-> 0]]
    ELSE IF line.word = "set-volume" /\ line.arg >= 0 /\ line.arg <= 100
    THEN [ok |-> TRUE, cmd |-> [name |-> line.word, volume |-> line.arg]]
    ELSE [ok |-> FALSE, cmd |-> [name |-> "rejected", volume |-> 0]]

\* The command lines a one-shot run is started with.
CommandLines ==
    {CommandLine(w, NoLevel) :
        w \in {"install", "uninstall", "config", "get-volume", "set-volume"}}
    \cup {CommandLine("set-volume", n) : n \in {0, 50, 100, 150}}
    \cup {CommandLine("volume", 50)}

OneShot == {"install", "uninstall", "config", "get-volume", "set-volume"}

\* TaskScheduler::unregister_autostart, called by main.rs: removes the task.
unregister_autostart(store, vbs, failAt) == unregister_task(store, vbs, failAt)

\* A variant of CommandResult: main without its exit(1), every run ending
\* with the exit code 0.
CommandResult_zero(ok) == "exit_ok"

\* main, lines 14-20: the process ends with the code 1 when run returns an
\* error and with 0 when it returns Ok.
CommandResult(ok) == IF ok THEN "exit_ok" ELSE "exit_err"

Unparsed == [name |-> "unparsed", volume |-> 0]

\* A process started with a subcommand, before Cli::parse.
CmdInit ==
    /\ supPc = "parse"
    /\ cmd = Unparsed
    /\ cfg = DefaultConfig
    /\ cfgFile \in {NoFile, FileOf(StoredConfig)}
    /\ cli = NoOptions
    /\ consoleRunning = FALSE /\ handlerSet = FALSE
    /\ created = FALSE /\ running = FALSE /\ nStores = 0
    /\ loopPc = "unspawned" /\ iter = NoIter /\ iterated = FALSE
    /\ initWrite = [state |-> "none", value |-> NoLevel]
    /\ level \in Levels
    /\ faults = 0 /\ drifts = 0
    /\ trayPc = "none" /\ menuQ = <<>> /\ chan = <<>> /\ clicks = 0
    /\ defaultDev = 1 /\ idle = 990
    /\ enumerator = NoEndpoint /\ resolved = NoResolved
    /\ logs = NoLogs /\ rot = NoRot
    /\ RegIdle
    /\ tasks \in InitStores
    /\ vbsFile = IF HasTask(tasks, TASK_NAME)
                 THEN create_vbs_wrapper(NoVbs, "exe", 950, "none").vbsFile
                 ELSE NoVbs
    /\ acc = NoAcc /\ comHeld = {} /\ apiLog = {}

\* run, line 24: Cli::parse()
CmdParse ==
    /\ supPc = "parse"
    /\ \E line \in CommandLines :
        LET p == Cli_parse(line) IN
        /\ cmd' = p.cmd
        /\ supPc' = IF p.ok THEN "logging" ELSE "exit_usage"
    /\ UNCHANGED <<cfg, consoleRunning, handlerSet, flagVars, loopVars,
                   initWrite, devVars, trayVars, regVars, acc, comHeld, apiLog>>
    /\ UNCHANGED cfgVars
    /\ UNCHANGED endpointVars
    /\ UNCHANGED logVars

\* run, line 27: setup_logging()?
CmdLogging ==
    /\ supPc = "logging"
    /\ \E ok \in BOOLEAN :
        /\ supPc' = IF ok THEN "command" ELSE CommandResult(FALSE)
        /\ faults' = IF ok THEN faults ELSE faults + 1
        /\ logs' = IF ok THEN OpenLog(rotate_log_if_needed(logs, {}).logs)
                   ELSE logs
    /\ UNCHANGED <<cfg, consoleRunning, handlerSet, flagVars, loopVars,
                   initWrite, level, drifts, trayVars, regVars, cmdVars>>
    /\ UNCHANGED cfgVars
    /\ UNCHANGED endpointVars
    /\ UNCHANGED rot

\* handle_command, Install and Uninstall: TaskScheduler::new()?, called
\* without a ComGuard.
CmdSchedulerNew ==
    /\ supPc = "command"
    /\ cmd.name \in {"install", "uninstall"}
    /\ \E ok \in BOOLEAN :
        /\ sched' = IF ok THEN "connected" ELSE "failed"
        /\ supPc' = IF ok THEN "registrar" ELSE CommandResult(FALSE)
        /\ faults' = IF ok THEN faults ELSE faults + 1
    /\ apiLog' = apiLog \cup {ApiCall(cmd.name, "scheduler", "main" \in comHeld)}
    /\ UNCHANGED <<cfg, consoleRunning, handlerSet, flagVars, loopVars,
                   initWrite, level, drifts, trayVars, tasks, vbsFile, last,
                   regHist, calls, cmd, acc, comHeld>>
    /\ UNCHANGED cfgVars
    /\ UNCHANGED endpointVars
    /\ UNCHANGED logVars

\* handle_command, Install: scheduler.register_autostart()?
CmdInstall ==
    /\ supPc = "registrar"
    /\ cmd.name = "install"
    /\ \E tv \in RegTargets, failAt \in RegisterFailPoints, deleteOk \in BOOLEAN :
        LET r == register_autostart(tasks, vbsFile, tv, failAt, deleteOk) IN
        /\ tasks' = r.tasks
        /\ vbsFile' = r.vbsFile
        /\ last' = RegisterRecord(r.ok, failAt, tv, AutostartIntervalMinutes)
        /\ regHist' = NextHist(regHist, "register", r)
        /\ faults' = IF r.ok THEN faults ELSE faults + 1
        /\ supPc' = CommandResult(r.ok)
    /\ UNCHANGED <<cfg, consoleRunning, handlerSet, flagVars, loopVars,
                   initWrite, level, drifts, trayVars, sched, calls, cmdVars>>
    /\ UNCHANGED cfgVars
    /\ UNCHANGED endpointVars
    /\ UNCHANGED logVars

\* handle_command, Uninstall: scheduler.unregister_autostart()?
CmdUninstall ==
    /\ supPc = "registrar"
    /\ cmd.name = "uninstall"
    /\ \E failAt \in UnregisterFailPoints :
        LET r == unregister_autostart(tasks, vbsFile, failAt) IN
        /\ tasks' = r.tasks
        /\ vbsFile' = r.vbsFile
        /\ last' = CallRecord("unregister", r.ok, FALSE, failAt)
        /\ regHist' = NextHist(regHist, "unregister", r)
        /\ faults' = IF r.ok THEN faults ELSE faults + 1
        /\ supPc' = CommandResult(r.ok)
    /\ UNCHANGED <<cfg, consoleRunning, handlerSet, flagVars, loopVars,
                   initWrite, level, drifts, trayVars, sched, calls, cmdVars>>
    /\ UNCHANGED cfgVars
    /\ UNCHANGED endpointVars
    /\ UNCHANGED logVars

\* handle_command, Config: load_from_file().unwrap_or_default(), display and
\* Ok(()): the configuration of the file, or the default one when
\* load_from_file returns an error (the file missing, unreadable or not a
\* configuration).
CmdConfig ==
    /\ supPc = "command"
    /\ cmd.name = "config"
    /\ LET lf == load_from_file(cfgFile) IN
       /\ cfg' = IF lf.ok THEN lf.config ELSE DefaultConfig
       /\ faults' = IF lf.ok THEN faults ELSE faults + 1
    /\ supPc' = CommandResult(TRUE)
    /\ UNCHANGED <<consoleRunning, handlerSet, flagVars, loopVars, initWrite,
                   level, drifts, trayVars, regVars, cmdVars>>
    /\ UNCHANGED cfgVars
    /\ UNCHANGED endpointVars
    /\ UNCHANGED logVars

\* handle_command, GetVolume: get_current_volume()?
CmdGetVolume ==
    /\ supPc = "command"
    /\ cmd.name = "get-volume"
    /\ \E f \in GetVolumeFaults :
        LET r == get_current_volume(level, f) IN
        /\ resolved' = IF ReachesDevice(0, f)
                       THEN Resolved("get_current_volume",
                                     get_default_microphone(defaultDev, defaultDev),
                                     defaultDev)
                       ELSE resolved
        /\ acc' = AccRecord("get_current_volume", NoLevel, r, r.value)
        /\ apiLog' = IF r.device
                      THEN apiLog \cup {ApiCall("get_current_volume", "device",
                                                r.guard)}
                      ELSE apiLog
        /\ faults' = IF r.ok THEN faults ELSE faults + 1
        /\ supPc' = CommandResult(r.ok)
    /\ UNCHANGED <<cfg, consoleRunning, handlerSet, flagVars, loopVars,
                   initWrite, level, drifts, trayVars, regVars, cmd, comHeld>>
    /\ UNCHANGED cfgVars
    /\ UNCHANGED <<defaultDev, idle, enumerator>>
    /\ UNCHANGED logVars

\* handle_command, SetVolume: set_volume(volume as f32 / 100.0)?
CmdSetVolume ==
    /\ supPc = "command"
    /\ cmd.name = "set-volume"
    /\ \E f \in SetVolumeFaults :
        LET volume_f32 == cmd.volume * 10
            r == set_volume(level, volume_f32, f) IN
        /\ resolved' = IF ReachesDevice(volume_f32, f)
                       THEN Resolved("set_volume",
                                     get_default_microphone(defaultDev, defaultDev),
                                     defaultDev)
                       ELSE resolved
        /\ f # "none" => r.com
        /\ level' = r.level
        /\ acc' = AccRecord("set_volume", volume_f32, r,
                            IF r.wrote THEN volume_f32 ELSE NoLevel)
        /\ apiLog' = IF r.device
                      THEN apiLog \cup {ApiCall("set_volume", "device", r.guard)}
                      ELSE apiLog
        /\ faults' = IF r.ok THEN faults ELSE faults + 1
        /\ supPc' = CommandResult(r.ok)
    /\ UNCHANGED <<cfg, consoleRunning, handlerSet, flagVars, loopVars,
                   initWrite, drifts, trayVars, regVars, cmd, comHeld>>
    /\ UNCHANGED cfgVars
    /\ UNCHANGED <<defaultDev, idle, enumerator>>
    /\ UNCHANGED logVars

CmdNext ==
    \/ CmdParse \/ CmdLogging \/ CmdSchedulerNew \/ CmdInstall \/ CmdUninstall
    \/ CmdConfig \/ CmdGetVolume \/ CmdSetVolume

CmdSpec == CmdInit /\ [][CmdNext]_vars

\* The whole program: a run in monitoring mode or a one-shot command.
ProgInit == Init \/ CmdInit

ProgNext == Next \/ CmdNext

ProgSpec == ProgInit /\ [][ProgNext]_vars

\* ------------------------------------ the accessor's entry points, called
\* ------------------------------------ directly

\* Targets a caller may pass to set_volume: -0.1 and 1.5 as in
\* test_invalid_volume_range, the ends of the range, and 1.001 just above it.
ApiTargets == {0 - 100, 0, 500, 1000, 1001, 1500}

AccInit ==
    /\ ProcInit
    /\ cfg = [target_volume |-> 500, check_interval_ms |-> 100,
              enable_tray |-> FALSE, enable_autostart |-> FALSE]
    /\ level \in Levels
    /\ RegIdle
    /\ tasks = <<>>
    /\ vbsFile = NoVbs
    /\ cmd = Monitoring
    /\ logs = OpenLog(NoLogs)
    /\ cfgFile = FileOf(cfg)
    /\ cli = NoOptions

\* A call of AudioController::set_volume
CallSetVolume ==
    /\ calls < MaxCalls
    /\ \E t \in ApiTargets, f \in SetVolumeFaults :
        LET r == set_volume(level, t, f) IN
        /\ resolved' = IF ReachesDevice(t, f)
                       THEN Resolved("set_volume",
                                     get_default_microphone(defaultDev, defaultDev),
                                     defaultDev)
                       ELSE resolved
        /\ f # "none" => r.com
        /\ level' = r.level
        /\ acc' = AccRecord("set_volume", t, r, IF r.wrote THEN t ELSE NoLevel)
        /\ apiLog' = IF r.device
                      THEN apiLog \cup {ApiCall("set_volume", "device", r.guard)}
                      ELSE apiLog
    /\ calls' = calls + 1
    /\ UNCHANGED <<supVars, flagVars, loopVars, initWrite, faults, drifts,
                   trayVars, sched, tasks, vbsFile, last, regHist, cmd, comHeld>>
    /\ UNCHANGED cfgVars
    /\ UNCHANGED <<defaultDev, idle, enumerator>>
    /\ UNCHANGED logVars

\* A call of AudioController::get_current_volume
CallGetCurrentVolume ==
    /\ calls < MaxCalls
    /\ \E f \in GetVolumeFaults :
        LET r == get_current_volume(level, f) IN
        /\ resolved' = IF ReachesDevice(0, f)
                       THEN Resolved("get_current_volume",
                                     get_default_microphone(defaultDev, defaultDev),
                                     defaultDev)
                       ELSE resolved
        /\ acc' = AccRecord("get_current_volume", NoLevel, r, r.value)
        /\ apiLog' = IF r.device
                      THEN apiLog \cup {ApiCall("get_current_volume", "device",
                                                r.guard)}
                      ELSE apiLog
    /\ calls' = calls + 1
    /\ UNCHANGED <<supVars, flagVars, loopVars, initWrite, devVars, trayVars,
                   sched, tasks, vbsFile, last, regHist, cmd, comHeld>>
    /\ UNCHANGED cfgVars
    /\ UNCHANGED <<defaultDev, idle, enumerator>>
    /\ UNCHANGED logVars

AccNext == CallSetVolume \/ CallGetCurrentVolume \/ ExternalChange

AccSpec == AccInit /\ [][AccNext]_vars

\* The user or the system makes the other endpoint the default capture
\* device.
SwapDevice ==
    /\ ~Exited
    /\ drifts < MaxDrifts
    /\ drifts' = drifts + 1
    /\ defaultDev' = CHOOSE d \in Endpoints : d # defaultDev
    /\ level' = idle
    /\ idle' = level
    /\ UNCHANGED <<supVars, flagVars, loopVars, initWrite, faults, trayVars,
                   regVars, cmdVars, cfgVars, enumerator, resolved>>
    /\ UNCHANGED logVars

\* The whole program on a machine with two capture endpoints, either of
\* which can become the default at any time.
DevInit == LoopInit \/ CmdInit

DevNext == ProgNext \/ SwapDevice

DevSpec == DevInit /\ [][DevNext]_vars

\* ---------------------------------------------------- the startup alone

\* The start of the monitoring mode on a machine whose task folder may hold
\* the task and the wrapper of an earlier run, registered for the target
\* 0.95; the configured target is 0.5 or 1.0.
StartupInit ==
    /\ ProcInit
    /\ RegIdle
    /\ cfg \in {c \in Configs : validate(c)}
    /\ level = 490
    /\ tasks \in InitStores
    /\ vbsFile = IF HasTask(tasks, TASK_NAME)
                 THEN create_vbs_wrapper(NoVbs, "exe", 950, "none").vbsFile
                 ELSE NoVbs
    /\ cmd = Monitoring
    /\ logs = OpenLog(NoLogs)
    /\ cfgFile = FileOf(cfg)
    /\ cli = NoOptions

\* run, lines 36-67: from Config::load to the spawn of the loop thread.
StartupNext ==
    SupLoadConfig \/ SupAutostart \/ SupCreate \/ SupInitVolume \/ SupSpawn

StartupSpec == StartupInit /\ [][StartupNext]_vars

\* ----------------------------------------------------- the tray alone

\* One valid configuration, in tray mode and in console mode, the level at
\* the target.
TrayInit ==
    /\ LoopInit
    /\ level = cfg.target_volume

\* The user clicks an item of the tray menu, up to MaxMenuEvents times.
MenuClick ==
    /\ ~Exited
    /\ trayPc = "polling"
    /\ clicks < MaxMenuEvents
    /\ \E item \in MenuItems : menuQ' = Append(menuQ, item)
    /\ clicks' = clicks + 1
    /\ UNCHANGED <<supVars, flagVars, loopVars, initWrite, devVars, trayPc,
                   chan, regVars>>
    /\ UNCHANGED <<cmdVars, cfgVars, endpointVars, logVars>>

TrayNext == Next \/ MenuClick

\* The loop thread is scheduled.
TraySpec == TrayInit /\ [][TrayNext]_vars /\ WF_vars(Loop)

\* ------------------------------------------------ rotation alone

\* The log directory of a fresh installation.
RotInit ==
    /\ ProcInit
    /\ cfg = DefaultConfig
    /\ level = 500
    /\ RegIdle
    /\ tasks = <<>>
    /\ vbsFile = NoVbs
    /\ cmd = Monitoring
    /\ cfgFile = NoFile
    /\ cli = NoOptions
    /\ logs = NoLogs

\* The logger writes: app.log is created when it does not exist, and grows.
LogWrite ==
    /\ \E size \in LogSizes :
        \/ /\ logs[0] = NoLog
           /\ NewestId(logs, 0) < MaxLogFiles
           /\ logs' = [logs EXCEPT ![0] = LogFile(NewestId(logs, 0) + 1, size)]
        \/ /\ logs[0] # NoLog
           /\ size > logs[0].size
           /\ logs' = [logs EXCEPT ![0].size = size]
    /\ UNCHANGED <<procVars, regVars, cmdVars, cfgVars, endpointVars, rot>>

\* A call of rotate_log_if_needed; any of its renames and its removal may
\* fail.
RotateLog ==
    /\ \E failing \in SUBSET ((0 .. (MAX_ROTATED_LOGS - 1)) \cup {MAX_ROTATED_LOGS + 1}) :
        LET r == rotate_log_if_needed(logs, failing) IN
        /\ logs' = r.logs
        /\ rot' = RotRecord(TRUE, r.ok, logs, failing)
    /\ UNCHANGED <<procVars, regVars, cmdVars, cfgVars, endpointVars>>

RotNext == LogWrite \/ RotateLog

RotSpec == RotInit /\ [][RotNext]_vars

\* ================================================================ claims

\* C1: in every pass of the loop with a target in [0.0,1.0] and a current
\* level read successfully, a difference of at most 0.01 (10 thousandths)
\* between the level read and the target issues no write, and a larger one
\* issues exactly one write, of the target.
C1_WriteIffDrift ==
    (iter.read = "ok" /\ cfg.target_volume >= 0 /\ cfg.target_volume <= 1000)
    => LET d == IF iter.current >= cfg.target_volume
                THEN iter.current - cfg.target_volume
                ELSE cfg.target_volume - iter.current
       IN /\ d <= 10 => iter.writes = 0
          /\ d > 10 => (iter.writes = 1 /\ iter.value = cfg.target_volume)

\* C1's case: a pass read a level exactly 0.01 from the target and wrote
\* nothing.
C1_Witness ==
    /\ iter.read = "ok"
    /\ cfg.target_volume - iter.current = 10
    /\ iter.writes = 0
    /\ loopPc = "sleep"

\* C2: once the running flag is false, the loop's next check of the flag
\* leaves the loop, the loop thread ends (given that it is scheduled and its
\* sleep and device calls return), and after it has left the loop no pass
\* runs and so no corrective write is issued.
C2_StopIsObserved ==
    /\ [][(loopPc = "check" /\ ~running /\ loopPc' # loopPc)
            => loopPc' = "done"]_vars
    /\ [][loopPc = "done" => (loopPc' = "done" /\ iter' = iter)]_vars
    /\ (created /\ ~running) ~> (loopPc \in {"done", "failed"})

\* C2's case: the loop ran a pass, the flag was cleared and the loop left.
C2_Witness ==
    /\ created /\ ~running
    /\ iterated
    /\ loopPc = "done"

\* C3: the loop never ends because of a device error: monitor_and_control
\* returns Ok only when the running flag is false, and returns an error only
\* from its start (the range check, COM, the enumerator), never once a pass
\* has run, whatever device resolution, activation, read or write failed.
C3_LoopAbsorbsDeviceErrors ==
    /\ loopPc = "done" => (created /\ ~running)
    /\ loopPc = "failed" => ~iterated

\* C3's case: a pass failed on the device and the loop is in a later pass.
C3_Witness ==
    /\ iter.read = "err"
    /\ faults = MaxFaults
    /\ loopPc = "adjust"
    /\ running

\* C4: in every run in which the loop executes a pass, the initial
\* set_volume has written the target to the device successfully before.
C4_InitialWriteFirst ==
    (loopPc \in {"check", "adjust", "sleep", "done"} \/ iterated)
    => (initWrite.state = "ok" /\ initWrite.value = cfg.target_volume)

\* C4's case: the loop has executed a pass.
C4_Witness ==
    /\ iterated
    /\ initWrite.state = "ok"
    /\ iter.read = "ok"

\* C5: the running flag is monotone: AudioController::new creates it true,
\* every store of stop leaves it false, and once false it is never true
\* again.
C5_RunningMonotone ==
    /\ [][(~created /\ created') => running']_vars
    /\ [][nStores' # nStores => ~running']_vars
    /\ [][(created /\ ~running) => ~running']_vars

\* C5's case: stop has been called twice and the flag is still false.
C5_Witness ==
    /\ created /\ ~running
    /\ nStores = 2
    /\ supPc = "exit_ok"

\* C6: in every process run that ends normally exactly one store is
\* performed on the running flag.
C6_ExactlyOneStore ==
    supPc = "exit_ok" => nStores = 1

\* C7: the task store never holds more than one task of the fixed name, and
\* holds exactly one after a successful register.
C7_OneTask ==
    /\ CountNamed(tasks, "MicrophoneVolumeControl") <= 1
    /\ (last.op = "register" /\ last.ok)
        => CountNamed(tasks, "MicrophoneVolumeControl") = 1

\* C7's case: a successful register on a store that already held the task,
\* after an earlier call.
C7_Witness ==
    /\ last.op = "register" /\ last.ok
    /\ HasTask(last.before, "MicrophoneVolumeControl")
    /\ regHist.lastOk = "register"
    /\ calls >= 2

\* C8: with a reachable scheduler service, unregister succeeds whether or
\* not the task exists: it returns an error only when one of its calls
\* fails for another reason than the task being absent.
C8_UnregisterSucceeds ==
    (last.op = "unregister" /\ last.failAt = "none") => last.ok

\* C9 as stated: is_registered is true after a successful register until the
\* next successful unregister, and false after a successful unregister until
\* the next successful register.
C9_TracksSuccessfulCalls ==
    /\ regHist.lastOk = "register" => is_registered(tasks, TRUE, TRUE).value
    /\ regHist.lastOk = "unregister" => ~is_registered(tasks, TRUE, TRUE).value

\* C9 amended: with a reachable service, is_registered is true after a
\* successful register until the next call that deletes the task (a
\* successful unregister, or a register or unregister that fails after its
\* delete step), and false after a successful unregister until the next
\* successful register.
C9_TracksTaskStore ==
    /\ (regHist.lastOk = "register" /\ ~regHist.removedSince)
        => is_registered(tasks, TRUE, TRUE).value
    /\ (regHist.lastOk = "register" /\ regHist.removedSince)
        => ~is_registered(tasks, TRUE, TRUE).value
    /\ regHist.lastOk = "unregister" => ~is_registered(tasks, TRUE, TRUE).value

\* C9's case: is_registered called after a successful register returned
\* true.
C9_Witness ==
    /\ regHist.lastOk = "register" /\ ~regHist.removedSince
    /\ last.op = "is_registered" /\ last.failAt = "none"
    /\ last.value

\* C10: is_registered never returns an error: it returns false when the
\* folder lookup or the task query fails, and it leaves the task store and
\* the wrapper as they were.
C10_IsRegisteredTotal ==
    last.op = "is_registered"
    => /\ last.ok
       /\ last.failAt # "none" => last.value = FALSE
       /\ tasks = last.before
       /\ vbsFile = last.vbsBefore

\* C10's case: the folder lookup failed while the task exists, and the call
\* returned false.
C10_Witness ==
    /\ last.op = "is_registered"
    /\ last.failAt = "folder"
    /\ HasTask(tasks, "MicrophoneVolumeControl")
    /\ last.value = FALSE

\* C11: register returns an error exactly when the executable-path lookup,
\* the wrapper creation, the folder lookup, the construction of the task
\* definition or its commit fails; a failed delete of the existing task,
\* the task being absent included, never makes register fail.
C11_RegisterErrors ==
    last.op = "register" => (last.ok <=> last.failAt = "none")

\* register succeeded on a store without the task, where DeleteTask failed.
C11_Witness ==
    /\ last.op = "register"
    /\ last.failAt = "none"
    /\ last.ok
    /\ ~HasTask(last.before, "MicrophoneVolumeControl")
    /\ HasTask(tasks, "MicrophoneVolumeControl")

\* C12: for every target outside [0.0,1.0], set_volume returns an error
\* without initializing COM, resolving the device or writing to it, and the
\* level of the device is the one before the call.
C12_OutOfRangeRejected ==
    /\ [](( acc.op = "set_volume" /\ (acc.target < 0 \/ acc.target > 1000))
            => (~acc.ok /\ ~acc.com /\ ~acc.device /\ ~acc.wrote))
    /\ [][(/\ calls' # calls
           /\ acc'.op = "set_volume"
           /\ (acc'.target < 0 \/ acc'.target > 1000)) => level' = level]_vars

\* set_volume(1.5) has returned its error on a device at 49%.
C12_Witness ==
    /\ acc.op = "set_volume"
    /\ acc.target = 1500
    /\ ~acc.ok
    /\ ~acc.com
    /\ level = 490
    /\ drifts = 0

\* C13: no write reaches the device with a value outside [0.0,1.0]: the
\* initial write, the corrective writes of the loop and the write of the
\* set-volume command carry a value in range, and a run whose configured
\* target is out of range makes no device call at all.
C13_NoOutOfRangeWrite ==
    /\ initWrite.state = "ok" => (initWrite.value >= 0 /\ initWrite.value <= 1000)
    /\ iter.writes = 1 => (iter.value >= 0 /\ iter.value <= 1000)
    /\ acc.wrote => (acc.value >= 0 /\ acc.value <= 1000)
    /\ level >= 0 /\ level <= 1000
    /\ (cfg.target_volume < 0 \/ cfg.target_volume > 1000)
          => \A c \in apiLog : c.api # "device"

\* A monitoring run with the target 1.5 in its configuration has ended with
\* an error before any device call.
C13_Witness ==
    /\ cmd.name = "monitor"
    /\ cfg.target_volume = 1500
    /\ supPc = "exit_err"
    /\ apiLog = {}
    /\ initWrite.state = "none"

\* C14 as stated: every one-shot operation (install, uninstall, get-volume,
\* set-volume, config) ends with the exit code 0 only when it met no error,
\* and an error it meets ends the process at once with the exit code 1.
C14_ExitCodes ==
    cmd.name \in {"install", "uninstall", "get-volume", "set-volume", "config"}
    => /\ supPc = "exit_ok" => faults = 0
       /\ faults > 0 => supPc = "exit_err"

\* C14 amended: install, uninstall, get-volume and set-volume end with the
\* exit code 0 when every step succeeded and with 1 at the first error,
\* without a later step (no register or unregister after a failed
\* TaskScheduler::new); config ends with 1 only when the logging setup
\* failed, and with 0 also when the configuration file could not be loaded.
C14_ExitCodesButConfig ==
    /\ cmd.name \in {"install", "uninstall", "get-volume", "set-volume"}
       => /\ faults > 0 <=> supPc = "exit_err"
          /\ faults <= 1
          /\ sched = "failed" => last.op = "none"
          /\ supPc = "exit_ok" =>
                CASE cmd.name = "install" -> last.op = "register" /\ last.ok
                  [] cmd.name = "uninstall" -> last.op = "unregister" /\ last.ok
                  [] cmd.name = "get-volume" ->
                        acc.op = "get_current_volume" /\ acc.ok
                  [] cmd.name = "set-volume" ->
                        acc.ok /\ acc.wrote /\ level = cmd.volume * 10
    /\ cmd.name = "config"
       => /\ faults <= 1
          /\ supPc = "exit_err" => (faults = 1 /\ cfg.target_volume = 950)
          /\ supPc \in {"logging", "command", "exit_ok", "exit_err"}

\* install has ended with the exit code 1 at the failure of
\* TaskScheduler::new, the first step, without a register call.
C14_Witness ==
    /\ cmd.name = "install"
    /\ sched = "failed"
    /\ supPc = "exit_err"
    /\ faults = 1
    /\ last.op = "none"

\* C15: in monitoring mode no device error ends the process with a non-zero
\* exit code: a run does not end with the exit code 1 after a device call of
\* its own has failed, at startup or in the loop.
C15_NoExitOnDeviceError ==
    (cmd.name = "monitor" /\ supPc = "exit_err")
    => /\ ~(acc.op = "set_volume" /\ acc.device /\ ~acc.ok)
       /\ iter.read # "err"

\* C16 as stated: after a cancellation signal the supervisor stops the
\* controller, the loop thread ends, the supervisor joins it and the process
\* exits; and run never returns while the loop thread is still running.
C16_JoinBeforeReturn ==
    /\ Cancelled ~> (supPc = "exit_ok" /\ loopPc \in {"done", "failed"})
    /\ [](Exited => loopPc \in {"unspawned", "done", "failed"})

\* C16 amended: after a cancellation signal the process ends, with the exit
\* code 0 and never with an error, after the flag was cleared and the loop
\* thread has ended; run returns while the loop thread is running only when
\* the installation of the Ctrl-C handler failed.
C16_ShutdownJoins ==
    /\ Cancelled ~> (supPc = "exit_ok" /\ loopPc \in {"done", "failed"})
    /\ [](supPc = "exit_ok"
            => (created /\ ~running /\ loopPc \in {"done", "failed"}))
    /\ [](Cancelled => supPc # "exit_err")
    /\ []((Exited /\ loopPc \notin {"unspawned", "done", "failed"})
            => (/\ supPc = "exit_err"
                /\ ~cfg.enable_tray /\ consoleRunning /\ ~handlerSet))

\* Console mode after Ctrl-C: the loop ran a pass, saw the flag false and
\* returned, and the process has exited.
C16_Witness ==
    /\ handlerSet
    /\ ~consoleRunning
    /\ iterated
    /\ loopPc = "done"
    /\ supPc = "exit_ok"

\* C17: every error returned by register or unregister makes the program
\* operation that called it fail: after a failed register or unregister the
\* process does nothing but exit with the exit code 1, in every mode.
C17_RegistrarErrorsPropagate ==
    (last.op \in {"register", "unregister"} /\ ~last.ok) => supPc = "exit_err"

\* C18: in monitoring mode (no subcommand) the registrar is not invoked: no
\* scheduler API is called and no register, unregister or is_registered
\* operation is performed, from startup until exit.
C18_NoRegistrarInMonitoring ==
    cmd.name = "monitor"
    => /\ last.op = "none"
       /\ \A c \in apiLog : c.api # "scheduler"

\* C19: the command line of the wrapper script written by a successful
\* register is one Cli::parse accepts, as the set-volume subcommand with the
\* registered percentage.
C19_WrapperLineAccepted ==
    (last.op = "register" /\ last.ok)
    => LET p == Cli_parse(CommandLine(vbsFile.command, vbsFile.volume_percent)) IN
       /\ vbsFile.state = "written"
       /\ p.ok
       /\ p.cmd.name = "set-volume"
       /\ p.cmd.volume = vbsFile.volume_percent

\* C20: every device API call and every scheduler API call is made by a
\* thread that holds a ComGuard.
C20_ComGuardHeld ==
    \A c \in apiLog : c.guarded

\* C21: after a successful register(v2, m2) on a store that holds the task of
\* an earlier registration, the stored task and the wrapper script are those
\* register(v2, m2) produces on an empty store: nothing of the earlier
\* registration survives.
C21_RegisterFromScratch ==
    (last.op = "register" /\ last.ok /\ HasTask(last.before, "MicrophoneVolumeControl"))
    => LET fresh == register_task(<<>>, NoVbs, last.args.target_volume,
                                  last.args.interval_minutes, "none", TRUE) IN
       /\ vbsFile = fresh.vbsFile
       /\ vbsFile.volume_percent = last.args.target_volume \div 10
       /\ \A i \in DOMAIN tasks :
            tasks[i].name = "MicrophoneVolumeControl"
            => (tasks[i] = fresh.tasks[1]
                /\ tasks[i].interval = last.args.interval_minutes)

\* register(0.5, 10) succeeded on a store that held the task and the wrapper
\* of register(0.95, 5).
C21_Witness ==
    /\ last.op = "register"
    /\ last.ok
    /\ last.args = [target_volume |-> 500, interval_minutes |-> 10]
    /\ last.vbsBefore.volume_percent = 95
    /\ \E i \in DOMAIN last.before :
          /\ last.before[i].name = "MicrophoneVolumeControl"
          /\ last.before[i].interval = 5
          /\ i \in DOMAIN tasks
          /\ tasks[i].name = "MicrophoneVolumeControl"
    /\ Len(tasks) = Len(last.before)

\* C22: the monitoring loop never runs with a check interval below 100 ms.
\* Once Config::load has merged the file and the command line, a merged
\* interval below 100 ms means the program has exited with an error and the
\* loop was never spawned; a spawned loop has an interval of at least 100 ms.
C22_IntervalAtLeast100 ==
    /\ loopPc # "unspawned" => cfg.check_interval_ms >= MinIntervalMs
    /\ (supPc # "load" /\ cfg.check_interval_ms < MinIntervalMs)
       => (supPc = "exit_err" /\ loopPc = "unspawned" /\ ~created)

\* Config::load merged a file whose interval is 99 ms and whose target is in
\* range, and the program exited before the loop was spawned.
C22_Witness ==
    /\ supPc = "exit_err"
    /\ cfgFile.state = "present"
    /\ cfgFile.values.check_interval_ms = 99
    /\ cfg = Merged(cfgFile, cli)
    /\ cfg.check_interval_ms = 99
    /\ InRange(cfg.target_volume)
    /\ loopPc = "unspawned"

\* C23: loading a configuration file that lacks some fields or holds unknown
\* ones yields a configuration in which each missing field has its default
\* and each field of the file keeps the value of the file (unless an option
\* of the command line overrides it).
C23_MissingFieldsDefault ==
    [][(supPc = "load" /\ supPc' # "load" /\ cfgFile.state = "present")
       => LET expected == load_from_file_serde_default(cfgFile).config IN
          /\ cli.volume = NoLevel
             => cfg'.target_volume = expected.target_volume
          /\ cli.interval = NoLevel
             => cfg'.check_interval_ms = expected.check_interval_ms
          /\ ~cli.no_tray => cfg'.enable_tray = expected.enable_tray
          /\ ~cli.no_autostart
             => cfg'.enable_autostart = expected.enable_autostart]_vars

\* C24: every operation that reads or writes the level acts on the endpoint
\* that is the default capture device at the time of that loop pass or of
\* that get_current_volume or set_volume call, and a pass that reads the
\* level reads the level of that endpoint: an endpoint resolved in an earlier
\* pass is not used again after the default has changed.
C24_DefaultDeviceResolvedAnew ==
    /\ [](resolved.dev # NoEndpoint => resolved.dev = resolved.default)
    /\ [][(loopPc = "adjust" /\ loopPc' # "adjust" /\ iter'.read = "ok")
          => (resolved'.dev = defaultDev /\ iter'.current = level)]_vars

\* The default changed from endpoint 1 to endpoint 2 after the loop had
\* created its enumerator, and the next pass read and corrected endpoint 2.
C24_Witness ==
    /\ enumerator = 1
    /\ defaultDev = 2
    /\ resolved = Resolved("check_and_adjust_volume", 2, 2)
    /\ iter.read = "ok"
    /\ iter.current = 990
    /\ iter.writes = 1
    /\ level = cfg.target_volume
    /\ idle # 990

\* After a swap of the default endpoint a get-volume command read the level
\* of endpoint 2.
C24_WitnessCall ==
    /\ cmd.name = "get-volume"
    /\ defaultDev = 2
    /\ resolved = Resolved("get_current_volume", 2, 2)
    /\ acc.ok
    /\ acc.value = 990

\* The last call of rotate_log_if_needed returned Ok and rotated.
Rotated == rot.called /\ rot.ok /\ Oversized(rot.before[0])

\* The file is on none of the paths of the log directory.
Discarded(file) == \A i \in Slots : logs[i] # file

C26_WitnessAtLimit ==
    /\ rot.called /\ rot.ok
    /\ rot.before[0].size = 5242880
    /\ logs = rot.before
    /\ logs[1] = NoLog

\* C27: the loop self-heals. If the loop has entered its while loop and, from
\* some point on, the process lives with the running flag true, no device
\* call fails and no external actor changes the level, then from some point
\* on the level is within 0.01 (10 thousandths) of the target and the last
\* pass has read the level and issued no write.
C27_SelfHeals ==
    (/\ <>(loopPc = "check")
     /\ <>[](running /\ ~Exited)
     /\ <>[][faults' = faults /\ drifts' = drifts]_vars)
    => <>[](/\ Abs(level - cfg.target_volume) <= 10
            /\ iter.read = "ok"
            /\ iter.writes = 0)

\* A pass failed on the device, an external actor changed the level, and a
\* later pass has found the level at the target and written nothing.
C27_Witness ==
    /\ running /\ ~Exited
    /\ faults > 0
    /\ drifts = MaxDrifts
    /\ level = cfg.target_volume
    /\ iter.read = "ok"
    /\ iter.writes = 0
    /\ loopPc = "sleep"

\* C28: after stop() has stored false in the running flag, the loop runs at
\* most one further pass, and so issues at most one further write, before it
\* exits: when the store finds the loop outside a pass, no pass ever runs
\* again; a pass can follow the store only when the loop had checked the flag
\* before it, and that pass ends in the sleep, after which the loop is
\* outside a pass. The loop thread then ends.
C28_AtMostOnePassAfterStop ==
    /\ []((created /\ ~running /\ loopPc # "adjust") => [](loopPc # "adjust"))
    /\ [][(created /\ ~running /\ loopPc = "adjust" /\ loopPc' # loopPc)
          => (loopPc' = "sleep" /\ iter'.writes <= 1)]_vars
    /\ (created /\ ~running /\ loopPc = "adjust")
       ~> (loopPc \in {"sleep", "done"} /\ ~running)

\* The store of stop() fell between the loop's check of the flag and its
\* pass: the one pass that can follow the store is about to run, on a level
\* that needs a write.
C28_Witness ==
    /\ created /\ ~running
    /\ nStores > 0
    /\ loopPc = "adjust"
    /\ iterated
    /\ NeedsCorrection(level, cfg.target_volume)

\* C29: in tray mode, whenever the tray thread has ended, with a Quit or
\* without one (the event loop, the menu or the icon could not be created,
\* or run_app returned an error), the supervisor leaves run_tray, stores
\* false in the running flag, the loop thread ends and the process exits
\* with the exit code 0; once the tray thread was started the process never
\* exits with an error.
C29_TrayEndStopsLoop ==
    /\ (trayPc = "ended")
       ~> (supPc = "exit_ok" /\ ~running /\ loopPc \in {"done", "failed"})
    /\ [](trayPc # "none" => supPc # "exit_err")
    /\ []((cfg.enable_tray /\ supPc \in {"join", "exit_ok"})
          => (trayPc = "ended" /\ ~running /\ nStores > 0))

\* The tray thread ended at its start, without any menu event and so without
\* a Quit message; the supervisor stopped the controller once, the loop had
\* run a pass and returned, and the process exited with the exit code 0.
C29_Witness ==
    /\ cfg.enable_tray
    /\ trayPc = "ended"
    /\ clicks = 0
    /\ chan = <<>>
    /\ nStores = 1
    /\ ~running
    /\ iterated
    /\ loopPc = "done"
    /\ supPc = "exit_ok"

\* C30: a ShowConfig or ToggleMonitoring message leaves the running flag, the
\* loop and the supervisor's place in run_tray unchanged, and the loop keeps
\* iterating as long as the flag is true and the process lives; in tray mode
\* the flag is cleared only on a Quit message or, after the channel has
\* disconnected, in the cleanup; each menu event consumed appends exactly one
\* message, its own, to the channel, nothing else sends, and the supervisor
\* receives the messages from the head of the channel.
C30_OnlyQuitStops ==
    /\ [][(supPc = "recv" /\ chan # <<>> /\ chan' = Tail(chan)
           /\ Head(chan) \in {"ShowConfig", "ToggleMonitoring"})
          => (/\ running' = running /\ nStores' = nStores
              /\ supPc' = "recv"
              /\ loopPc' = loopPc /\ iter' = iter)]_vars
    /\ [][(cfg.enable_tray /\ running /\ ~running')
          => \/ (supPc = "recv" /\ chan # <<>> /\ Head(chan) = "Quit")
             \/ (supPc = "cleanup" /\ trayPc = "ended" /\ chan = <<>>)]_vars
    /\ [][chan' # chan
          => \/ (supPc = "recv" /\ chan # <<>> /\ chan' = Tail(chan)
                 /\ menuQ' = menuQ)
             \/ (menuQ # <<>> /\ menuQ' = Tail(menuQ)
                 /\ chan' = Append(chan, MessageFor(Head(menuQ))))]_vars
    /\ [][(menuQ # <<>> /\ menuQ' = Tail(menuQ))
          => chan' = Append(chan, MessageFor(Head(menuQ)))]_vars
    /\ (<>(loopPc = "check") /\ <>[](running /\ ~Exited))
       => []<>(loopPc = "adjust")

\* Two messages were sent, ShowConfig then ToggleMonitoring; the supervisor
\* has received both, the flag is true, no store was made and the loop, which
\* has run a pass, is sleeping.
C30_Witness ==
    /\ cfg.enable_tray
    /\ clicks = 2
    /\ menuQ = <<>> /\ chan = <<>>
    /\ trayPc = "polling"
    /\ supPc = "recv"
    /\ running /\ nStores = 0
    /\ iterated
    /\ loopPc = "sleep"

\* The two messages in the channel, in the order of the menu events.
C30_WitnessOrder ==
    /\ chan = <<"ToggleMonitoring", "ShowConfig">>
    /\ menuQ = <<>>
    /\ running

\* C31 as stated: when a task of the fixed name exists, the autostart setup
\* of the startup leaves the task store and the wrapper script unchanged.
C31_ExistingTaskKept ==
    [][(supPc = "autostart" /\ supPc' = "create"
        /\ \E i \in DOMAIN tasks : tasks[i].name = "MicrophoneVolumeControl")
       => (tasks' = tasks /\ vbsFile' = vbsFile)]_vars

\* C31, amended: the autostart setup registers only after is_registered has
\* returned false. When is_registered returns true, which it does only when
\* a task of the fixed name exists, the task store and the wrapper script are
\* left unchanged, whatever the configured target; with autostart disabled
\* nothing is called. A task that exists is registered again when
\* is_registered returns false for it.
C31_RegistersOnlyWhenNotReported ==
    [][(supPc = "autostart" /\ supPc' = "create")
       => /\ (last' # last /\ last'.op = "is_registered")
             => (/\ last'.value
                 /\ \E i \in DOMAIN tasks :
                       tasks[i].name = "MicrophoneVolumeControl"
                 /\ tasks' = tasks /\ vbsFile' = vbsFile)
          /\ (tasks' # tasks \/ vbsFile' # vbsFile \/ last'.op = "register")
             => (last'.op = "register" /\ ~last'.value
                 /\ cfg.enable_autostart)
          /\ ~cfg.enable_autostart
             => (tasks' = tasks /\ vbsFile' = vbsFile /\ last' = last)]_vars

\* The startup found the task and the wrapper registered for the target 0.95
\* while the configured target is 0.5, and left both as they were.
C31_Witness ==
    /\ supPc = "create"
    /\ cfg.enable_autostart
    /\ cfg.target_volume = 500
    /\ last.op = "is_registered" /\ last.value
    /\ vbsFile.volume_percent = 95
    /\ tasks = last.before
    /\ \E i \in DOMAIN tasks :
          tasks[i].name = "MicrophoneVolumeControl" /\ tasks[i].interval = 5

\* C32: Config::load writes the file only after the merged configuration
\* (the file or the defaults, overridden by the options) has passed
\* validate: a load that ends on a validation error leaves the file as it
\* was, a load that changes the file has validated what it merged, and a
\* load that returns a configuration leaves a file that holds, and loads
\* back as, exactly that configuration.
C32_SavesOnlyValidated ==
    [][(supPc = "load" /\ supPc' # "load")
       => /\ cfg' = Merged(cfgFile, cli)
          /\ ~validate(cfg') => (supPc' = "exit_err" /\ cfgFile' = cfgFile)
          /\ cfgFile' # cfgFile => validate(cfg')
          /\ supPc' = "autostart"
                => (/\ validate(cfg')
                    /\ cfgFile'.state = "present"
                    /\ cfgFile'.present = ConfigFields
                    /\ cfgFile'.values = cfg'
                    /\ load_from_file(cfgFile') = [ok |-> TRUE, config |-> cfg'])]_vars

\* A load that returned a configuration the options overrode: the file now
\* holds the merged values, not the ones it held.
C32_Witness ==
    /\ supPc = "autostart"
    /\ cli.volume = 100 /\ cli.no_tray
    /\ cfg.target_volume = 1000 /\ ~cfg.enable_tray
    /\ cfg.check_interval_ms = StoredConfig.check_interval_ms
    /\ cfgFile = FileOf(cfg)

\* A load that ended on a validation error: the file still holds the target
\* validate rejected, with no option given.
C32_WitnessRejected ==
    /\ supPc = "exit_err"
    /\ cli = NoOptions
    /\ cfgFile = FileOf([StoredConfig EXCEPT !.target_volume = 1500])
    /\ cfg.target_volume = 1500

====
